---- MODULE Spec2Model ----
(***************************************************************************)
(* A model of the rule engine of src/atomic_chess.py (class                *)
(* AtomicChessGame): move generation, capture / explosion resolution,      *)
(* per-piece scripts, chunks, edge triggers, the win-condition evaluator   *)
(* and the configuration codec.                                            *)
(*                                                                         *)
(* Conventions.                                                            *)
(*  - A Python value that may be None is an option: <<>> is None and       *)
(*    <<v>> is the value v.  A board cell is an option of a piece.         *)
(*  - A square is the pair <<x, y>>; board[<<x, y>>] is self.board[y][x].  *)
(*  - A probability parameter (stutter, jitter, entropy) is held in        *)
(*    hundredths: 50 stands for the float 0.5, 100 for 1.0, 5000 for 50.0. *)
(*  - Each handler is one action.  Its code is a pure operator on the      *)
(*    record G of the engine's fields, so that a handler that calls        *)
(*    another (try_make_move -> check_edge_triggers -> toggle_chunk) is    *)
(*    the composition of their operators.                                  *)
(*  - random.random() and random.choice() are inputs of the action that    *)
(*    draws them.                                                          *)
(*  - Rendering, fonts, the explosion animation and the DSL message log    *)
(*    do not influence the engine and are left out; legal_targets is only  *)
(*    read by the renderer and is left out with it.                        *)
(*  - dsl_mode only routes key and mouse events: handle_click is modelled  *)
(*    with the console closed, process_dsl_command with it open.           *)
(***************************************************************************)
EXTENDS Integers, Sequences, FiniteSets, TLC

VARIABLES
    cols, rows,           \* self.cols, self.rows
    board,                \* self.board : square -> option of piece
    piece_types,          \* self.piece_types : name -> PieceType
    rules,                \* self.rules
    turn,                 \* self.turn
    fullmove,             \* self.fullmove
    last_move,            \* self.last_move : option of <<from, to>>
    game_over,            \* self.game_over
    result_text,          \* self.result_text
    selected_square,      \* self.selected_square : option of square
    damaged,              \* self.damaged : set of squares
    chunks,               \* self.chunks : insertion-ordered dict, a sequence of named records
    edge_triggers,        \* self.edge_triggers : list
    rand_chunk_counter,   \* self.rand_chunk_counter
    elapsed_s,            \* pygame.time.get_ticks() - self.start_time_ms, in whole seconds
    osc_out,              \* the OSC messages sent by the handler that ran last
    exc                   \* the uncaught exception that ended run(), "none" while it runs

vars == <<cols, rows, board, piece_types, rules, turn, fullmove, last_move,
          game_over, result_text, selected_square, damaged, chunks,
          edge_triggers, rand_chunk_counter, elapsed_s, osc_out, exc>>

(***************************************************************************)
(* Options and small helpers                                               *)
(***************************************************************************)
None == <<>>
Some(v) == <<v>>

Min(a, b) == IF a < b THEN a ELSE b
Max(a, b) == IF a > b THEN a ELSE b
\* The largest element of a finite set of naturals, 0 for the empty set.
Max0(S) == IF S = {} THEN 0 ELSE CHOOSE m \in S : \A n \in S : n <= m

RECURSIVE Flatten(_)
Flatten(ss) == IF ss = <<>> THEN <<>> ELSE Head(ss) \o Flatten(Tail(ss))

Range(s) == {s[i] : i \in DOMAIN s}

Squares(c, r) == (0 .. c - 1) \X (0 .. r - 1)

\* The squares of a grid in the order of "for y in range(rows): for x in range(cols)".
RowMajor(c, r) == [i \in 1 .. c * r |-> <<(i - 1) % c, (i - 1) \div c>>]

(***************************************************************************)
(* Program constants                                                       *)
(***************************************************************************)
MinBoardDim == 2
MaxBoardDim == 20
StdBoardDim == 8

(***************************************************************************)
(* PieceType and Piece                                                     *)
(***************************************************************************)
PieceType(name, kind, directions, max_range, can_jump) ==
    [name |-> name, kind |-> kind, directions |-> directions,
     max_range |-> max_range, can_jump |-> can_jump,
     explosion_radius |-> None, immune_to_explosion |-> FALSE,
     damaged_ok |-> FALSE, is_royal |-> FALSE,
     script_name |-> None, script_param |-> 0]

\* piece.state = {}: no override, no decay countdown, every counter read as 0.
EmptyPieceState ==
    [script_override |-> None, range_bonus |-> 0, heat_bonus |-> 0,
     decay_left |-> None, charge_count |-> 0, heat_count |-> 0,
     entropy_level |-> 0]

Piece(color, type_name, symbol) ==
    [color |-> color, type_name |-> type_name, symbol |-> symbol,
     state |-> EmptyPieceState]

\* type_name[0].upper()
Initial(tname) ==
    CASE tname = "king" -> "K"
      [] tname = "queen" -> "Q"
      [] tname = "rook" -> "R"
      [] tname = "bishop" -> "B"
      [] tname = "knight" -> "K"
      [] tname = "pawn" -> "P"
      [] tname = "zed" -> "Z"
      [] tname = "mine" -> "M"
      [] OTHER -> "X"

KingDirs == << <<1, 0>>, <<-1, 0>>, <<0, 1>>, <<0, -1>>,
               <<1, 1>>, <<1, -1>>, <<-1, 1>>, <<-1, -1>> >>
RookDirs == << <<1, 0>>, <<-1, 0>>, <<0, 1>>, <<0, -1>> >>
BishopDirs == << <<1, 1>>, <<1, -1>>, <<-1, 1>>, <<-1, -1>> >>
KnightDirs == << <<2, 1>>, <<1, 2>>, <<-1, 2>>, <<-2, 1>>,
                 <<-2, -1>>, <<-1, -2>>, <<1, -2>>, <<2, -1>> >>

init_default_piece_types ==
    [n \in {"king", "rook", "bishop", "queen", "knight", "pawn"} |->
        CASE n = "king" ->
               [PieceType("king", "king", KingDirs, Some(1), FALSE)
                   EXCEPT !.is_royal = TRUE]
          [] n = "rook" -> PieceType("rook", "rook", RookDirs, None, FALSE)
          [] n = "bishop" -> PieceType("bishop", "bishop", BishopDirs, None, FALSE)
          [] n = "queen" -> PieceType("queen", "queen", KingDirs, None, FALSE)
          [] n = "knight" -> PieceType("knight", "knight", KnightDirs, Some(1), TRUE)
          [] n = "pawn" -> PieceType("pawn", "pawn", <<>>, Some(1), FALSE)]

init_default_rules ==
    [capture_mode |-> "atomic", atomic_radius |-> 1, center_damages |-> TRUE,
     center_survives |-> TRUE, damage_blocks_move |-> TRUE,
     victory |-> "elimination", max_fullmoves |-> 0, max_seconds |-> 0,
     limit_result |-> "draw"]

(***************************************************************************)
(* The engine's fields as one record                                       *)
(***************************************************************************)
G == [cols |-> cols, rows |-> rows, board |-> board,
      piece_types |-> piece_types, rules |-> rules, turn |-> turn,
      fullmove |-> fullmove, last_move |-> last_move,
      game_over |-> game_over, result_text |-> result_text,
      selected_square |-> selected_square, damaged |-> damaged,
      chunks |-> chunks, edge_triggers |-> edge_triggers,
      rand_chunk_counter |-> rand_chunk_counter, elapsed_s |-> elapsed_s,
      osc_out |-> osc_out, exc |-> exc]

Becomes(g) ==
    /\ cols' = g.cols /\ rows' = g.rows /\ board' = g.board
    /\ piece_types' = g.piece_types /\ rules' = g.rules /\ turn' = g.turn
    /\ fullmove' = g.fullmove /\ last_move' = g.last_move
    /\ game_over' = g.game_over /\ result_text' = g.result_text
    /\ selected_square' = g.selected_square /\ damaged' = g.damaged
    /\ chunks' = g.chunks /\ edge_triggers' = g.edge_triggers
    /\ rand_chunk_counter' = g.rand_chunk_counter /\ elapsed_s' = g.elapsed_s
    /\ osc_out' = g.osc_out /\ exc' = g.exc

(***************************************************************************)
(* Move generation                                                         *)
(***************************************************************************)
in_bounds(g, x, y) == 0 <= x /\ x < g.cols /\ 0 <= y /\ y < g.rows

square_blocked_by_damage_never(g, x, y, ptype) == FALSE

square_blocked_by_damage(g, x, y, ptype) ==
    IF <<x, y>> \notin g.damaged THEN FALSE
    ELSE IF ~g.rules.damage_blocks_move THEN FALSE
    ELSE IF ptype.damaged_ok THEN FALSE
    ELSE TRUE

\* Pawn moves whose double step does not look at the square stepped over.
PawnMoves_leaping(g, x, y, piece, ptype) ==
    LET dir_y == IF piece.color = "white" THEN 1 ELSE -1
        start_rank == IF piece.color = "white" THEN 1 ELSE g.rows - 2
        free(ny) == /\ in_bounds(g, x, ny) /\ g.board[<<x, ny>>] = None
                    /\ ~square_blocked_by_damage(g, x, ny, ptype)
        cap(dx) == /\ in_bounds(g, x + dx, y + dir_y)
                   /\ ~square_blocked_by_damage(g, x + dx, y + dir_y, ptype)
                   /\ g.board[<<x + dx, y + dir_y>>] # None
                   /\ g.board[<<x + dx, y + dir_y>>][1].color # piece.color
    IN  (IF free(y + dir_y) THEN << <<x, y + dir_y>> >> ELSE <<>>)
        \o (IF y = start_rank /\ free(y + 2 * dir_y)
            THEN << <<x, y + 2 * dir_y>> >> ELSE <<>>)
        \o (IF cap(-1) THEN << <<x - 1, y + dir_y>> >> ELSE <<>>)
        \o (IF cap(1) THEN << <<x + 1, y + dir_y>> >> ELSE <<>>)

PawnMoves(g, x, y, piece, ptype) ==
    LET dir_y == IF piece.color = "white" THEN 1 ELSE -1
        start_rank == IF piece.color = "white" THEN 1 ELSE g.rows - 2
        ny == y + dir_y
        ny2 == y + 2 * dir_y
        fwd1 == /\ in_bounds(g, x, ny)
                /\ g.board[<<x, ny>>] = None
                /\ ~square_blocked_by_damage(g, x, ny, ptype)
        fwd2 == /\ fwd1
                /\ y = start_rank
                /\ in_bounds(g, x, ny2)
                /\ g.board[<<x, ny2>>] = None
                /\ ~square_blocked_by_damage(g, x, ny2, ptype)
        cap(dx) == /\ in_bounds(g, x + dx, ny)
                   /\ ~square_blocked_by_damage(g, x + dx, ny, ptype)
                   /\ g.board[<<x + dx, ny>>] # None
                   /\ g.board[<<x + dx, ny>>][1].color # piece.color
    IN  (IF fwd1 THEN << <<x, ny>> >> ELSE <<>>)
        \o (IF fwd2 THEN << <<x, ny2>> >> ELSE <<>>)
        \o (IF cap(-1) THEN << <<x - 1, ny>> >> ELSE <<>>)
        \o (IF cap(1) THEN << <<x + 1, ny>> >> ELSE <<>>)

LeaperMoves(g, x, y, piece, ptype) ==
    Flatten([i \in 1 .. Len(ptype.directions) |->
        LET nx == x + ptype.directions[i][1]
            ny == y + ptype.directions[i][2]
        IN  IF ~in_bounds(g, nx, ny) THEN <<>>
            ELSE IF square_blocked_by_damage(g, nx, ny, ptype) THEN <<>>
            ELSE IF g.board[<<nx, ny>>] = None
                    \/ g.board[<<nx, ny>>][1].color # piece.color
                 THEN << <<nx, ny>> >>
                 ELSE <<>>])

\* One direction of a slider: "for step in range(1, max_range + 1)".
RECURSIVE SlideRay(_, _, _, _, _, _, _, _)
SlideRay(g, x, y, piece, ptype, d, step, max_range) ==
    IF step > max_range THEN <<>>
    ELSE LET nx == x + d[1] * step
             ny == y + d[2] * step
         IN  IF ~in_bounds(g, nx, ny) THEN <<>>
             ELSE IF square_blocked_by_damage(g, nx, ny, ptype) THEN <<>>
             ELSE IF g.board[<<nx, ny>>] = None
                  THEN << <<nx, ny>> >>
                       \o SlideRay(g, x, y, piece, ptype, d, step + 1, max_range)
             ELSE IF g.board[<<nx, ny>>][1].color # piece.color
                  THEN << <<nx, ny>> >>
                  ELSE <<>>

\* Slider moves that leave the piece's range bonus out.
SliderMoves_unboosted(g, x, y, piece, ptype) ==
    Flatten([i \in 1 .. Len(ptype.directions) |->
        SlideRay(g, x, y, piece, ptype, ptype.directions[i], 1,
                 IF ptype.max_range # None THEN ptype.max_range[1]
                 ELSE Max(g.cols, g.rows))])

SliderMoves(g, x, y, piece, ptype) ==
    LET base_max == IF ptype.max_range # None THEN ptype.max_range[1]
                    ELSE Max(g.cols, g.rows)
        bonus == piece.state.range_bonus
        max_range == IF ptype.max_range # None THEN base_max + bonus ELSE base_max
    IN  Flatten([i \in 1 .. Len(ptype.directions) |->
            SlideRay(g, x, y, piece, ptype, ptype.directions[i], 1, max_range)])

\* A generator whose sliders do not see the damaged squares.
generate_moves_for_piece_undamaged(g, x, y) ==
    IF g.board[<<x, y>>] = None THEN <<>>
    ELSE LET piece == g.board[<<x, y>>][1] IN
         IF piece.type_name \notin DOMAIN g.piece_types THEN <<>>
         ELSE LET ptype == g.piece_types[piece.type_name] IN
              IF ptype.kind = "pawn" THEN PawnMoves(g, x, y, piece, ptype)
              ELSE IF ptype.kind = "knight" \/ ptype.can_jump
                   THEN IF ptype.directions # <<>>
                        THEN LeaperMoves(g, x, y, piece, ptype) ELSE <<>>
              ELSE IF ptype.directions # <<>>
                   THEN SliderMoves([g EXCEPT !.damaged = {}], x, y, piece, ptype)
                   ELSE <<>>

generate_moves_for_piece(g, x, y) ==
    IF g.board[<<x, y>>] = None THEN <<>>
    ELSE LET piece == g.board[<<x, y>>][1] IN
         IF piece.type_name \notin DOMAIN g.piece_types THEN <<>>
         ELSE LET ptype == g.piece_types[piece.type_name]
                  leaper == ptype.kind = "knight"
                            \/ (ptype.can_jump /\ ptype.directions # <<>>)
                  moves == IF leaper THEN LeaperMoves(g, x, y, piece, ptype) ELSE <<>>
              IN  IF ptype.kind = "pawn" THEN PawnMoves(g, x, y, piece, ptype)
                  ELSE IF leaper /\ (ptype.kind = "knight" \/ ptype.can_jump) THEN moves
                  ELSE IF ptype.directions # <<>>
                       THEN moves \o SliderMoves(g, x, y, piece, ptype)
                       ELSE moves

(***************************************************************************)
(* Script hooks                                                            *)
(***************************************************************************)
\* (script_name, script_param): the per-piece override, else the type default.
resolve_script_descriptor(piece, ptype) ==
    LET ov == piece.state.script_override
        sname == IF ov # None THEN Some(ov[1].name) ELSE ptype.script_name
        param == IF ov # None THEN ov[1].param ELSE ptype.script_param
    IN  IF sname = None \/ sname = Some("")
        THEN [name |-> None, param |-> 0]
        ELSE [name |-> sname, param |-> param]

\* p = max(0.0, min(1.0, p if p <= 1.0 else p / 100.0)), in hundredths.
ClampProb(p100) == Max(0, Min(100, IF p100 <= 100 THEN p100 ELSE p100 \div 100))

\* p = max(0.0, min(1.0, base_p * (1.0 + 0.1 * level))), in hundredths.
EntropyProb(base100, level) == Max(0, Min(100, (base100 * (10 + level)) \div 10))

\* random.random() < p, random() being in [0, 1): never for p = 0, always for
\* p = 1, and decided by the draw in between.
Chance(p100, coin) == p100 > 0 /\ (p100 >= 100 \/ coin)

\* A pre-move hook whose jitter and entropy redirect to the mirror image of the
\* chosen square instead of a member of legal_moves.
apply_script_pre_move_astray(piece, ptype, to_sq, legal_moves, coin, pick) ==
    IF resolve_script_descriptor(piece, ptype).name \in {Some("jitter"), Some("entropy")}
       /\ coin
    THEN Some(<<to_sq[2], to_sq[1]>>) ELSE Some(to_sq)

\* The new target, or None when the move is cancelled.  coin is the outcome of
\* random.random() < p and pick the index random.choice selects.
apply_script_pre_move(piece, ptype, to_sq, legal_moves, coin, pick) ==
    LET sd == resolve_script_descriptor(piece, ptype) IN
    IF sd.name = None THEN Some(to_sq)
    ELSE IF sd.name = Some("stutter")
         THEN IF Chance(ClampProb(sd.param), coin) THEN None ELSE Some(to_sq)
    ELSE IF sd.name = Some("jitter")
         THEN IF legal_moves # <<>> /\ Chance(ClampProb(sd.param), coin)
              THEN Some(legal_moves[pick]) ELSE Some(to_sq)
    ELSE IF sd.name = Some("entropy")
         THEN IF legal_moves # <<>>
                 /\ Chance(EntropyProb(sd.param, piece.state.entropy_level), coin)
              THEN Some(legal_moves[pick]) ELSE Some(to_sq)
    ELSE Some(to_sq)

\* A post-move hook that runs no script.
apply_script_post_move_idle(g, ptype, to_sq) == g

\* The board after the post-move script of the piece standing on to_sq.
apply_script_post_move(g, ptype, to_sq) ==
    LET piece == g.board[to_sq][1]
        sd == resolve_script_descriptor(piece, ptype)
        st == piece.state
        put(s) == [g EXCEPT !.board[to_sq] = Some([piece EXCEPT !.state = s])]
    IN  IF sd.name = None THEN g
        ELSE IF sd.name = Some("decay")
             THEN IF sd.param <= 0 THEN g
                  ELSE LET left == (IF st.decay_left # None THEN st.decay_left[1]
                                    ELSE sd.param) - 1
                       IN  IF left <= 0
                           THEN [g EXCEPT !.board[to_sq] = None]
                           ELSE put([st EXCEPT !.decay_left = Some(left)])
        ELSE IF sd.name = Some("charge")
             THEN IF sd.param <= 0 THEN g
                  ELSE LET count == st.charge_count + 1 IN
                       IF count >= sd.param
                       THEN put([st EXCEPT !.charge_count = 0,
                                           !.range_bonus = st.range_bonus + 1])
                       ELSE put([st EXCEPT !.charge_count = count])
        ELSE IF sd.name = Some("heat")
             THEN IF sd.param <= 0 THEN g
                  ELSE LET count == st.heat_count + 1 IN
                       IF count >= sd.param
                       THEN put([st EXCEPT !.heat_count = 0,
                                           !.heat_bonus = st.heat_bonus + 1])
                       ELSE put([st EXCEPT !.heat_count = count])
        ELSE IF sd.name = Some("entropy")
             THEN put([st EXCEPT !.entropy_level = st.entropy_level + 1])
        ELSE g

(***************************************************************************)
(* Win conditions                                                          *)
(***************************************************************************)
GameOverMsg(result, reason) == [addr |-> "/game_over", result |-> result, reason |-> reason]

\* self.game_over = True; self.result_text = ...; self.send_game_over_osc(...)
EndGame(g, text, result, reason) ==
    [g EXCEPT !.game_over = TRUE, !.result_text = text,
              !.osc_out = Append(g.osc_out, GameOverMsg(result, reason))]

count_pieces(g) ==
    LET occ == {sq \in DOMAIN g.board : g.board[sq] # None} IN
    [white |-> Cardinality({sq \in occ : g.board[sq][1].color = "white"}),
     black |-> Cardinality({sq \in occ : g.board[sq][1].color # "white"})]

\* A royal count that takes every piece for a royal.
count_royals_all(g) == count_pieces(g)

count_royals(g) ==
    LET roy == {sq \in DOMAIN g.board :
                   /\ g.board[sq] # None
                   /\ g.board[sq][1].type_name \in DOMAIN g.piece_types
                   /\ g.piece_types[g.board[sq][1].type_name].is_royal} IN
    [white |-> Cardinality({sq \in roy : g.board[sq][1].color = "white"}),
     black |-> Cardinality({sq \in roy : g.board[sq][1].color # "white"})]

apply_limit_result(g, reason_text, osc_reason, limit_result) ==
    IF g.game_over THEN g
    ELSE IF limit_result = "white"
         THEN EndGame(g, "1-0 (" \o reason_text \o ")", "1-0", osc_reason \o "_WHITE")
    ELSE IF limit_result = "black"
         THEN EndGame(g, "0-1 (" \o reason_text \o ")", "0-1", osc_reason \o "_BLACK")
    ELSE EndGame(g, "1/2-1/2 (" \o reason_text \o ")", "1/2-1/2", osc_reason \o "_DRAW")

\* A limit check that never reads the clock.
check_limits_game_over_timeless(g) ==
    IF g.game_over THEN g
    ELSE IF g.rules.max_fullmoves > 0 /\ g.fullmove > g.rules.max_fullmoves
         THEN apply_limit_result(g, "Move limit reached", "MOVE_LIMIT", g.rules.limit_result)
    ELSE g

check_limits_game_over(g) ==
    IF g.game_over THEN g
    ELSE IF g.rules.max_fullmoves > 0 /\ g.fullmove > g.rules.max_fullmoves
         THEN apply_limit_result(g, "Move limit reached", "MOVE_LIMIT", g.rules.limit_result)
    ELSE IF g.rules.max_seconds > 0 /\ g.elapsed_s >= g.rules.max_seconds
         THEN apply_limit_result(g, "Time limit reached", "TIME_LIMIT", g.rules.limit_result)
    ELSE g

\* The body of update_game_over below its "already decided" return.
VictoryCheck(g) ==
    LET mode == g.rules.victory
        r == count_royals(g)
        c == count_pieces(g)
    IN  IF mode = "king_capture" /\ r.white = 0 /\ r.black = 0
        THEN EndGame(g, "1/2-1/2 (No royals left)", "1/2-1/2", "NO_ROYALS")
        ELSE IF mode = "king_capture" /\ r.white = 0
        THEN EndGame(g, "0-1 (White royal lost)", "0-1", "WHITE_ROYAL_LOST")
        ELSE IF mode = "king_capture" /\ r.black = 0
        THEN EndGame(g, "1-0 (Black royal lost)", "1-0", "BLACK_ROYAL_LOST")
        ELSE IF mode = "elimination" /\ c.white = 0 /\ c.black = 0
        THEN EndGame(g, "1/2-1/2 (Mutual destruction)", "1/2-1/2", "MUTUAL_DESTRUCTION")
        ELSE IF mode = "elimination" /\ c.white = 0
        THEN EndGame(g, "0-1 (White eliminated)", "0-1", "WHITE_ELIMINATED")
        ELSE IF mode = "elimination" /\ c.black = 0
        THEN EndGame(g, "1-0 (Black eliminated)", "1-0", "BLACK_ELIMINATED")
        ELSE check_limits_game_over(g)

\* update_game_over as it would be without its "already decided" return.
update_game_over_unguarded(g) == VictoryCheck(g)

update_game_over(g) ==
    IF g.game_over THEN g ELSE VictoryCheck(g)

(***************************************************************************)
(* Chunks and edge triggers                                                *)
(***************************************************************************)
Chunk(name, rect) ==
    [name |-> name, rect |-> rect, fill |-> None, active |-> TRUE,
     owner |-> "any", enter_script |-> None, leave_script |-> None]

\* The position of the key name in the dict, 0 when it is no key.
ChunkIdx(chs, name) ==
    IF \E i \in DOMAIN chs : chs[i].name = name
    THEN CHOOSE i \in DOMAIN chs : chs[i].name = name
    ELSE 0

\* self.chunks[name] = ch: a known key keeps its place, a new key goes last.
SetChunk(chs, ch) ==
    IF ChunkIdx(chs, ch.name) = 0 THEN Append(chs, ch)
    ELSE [chs EXCEPT ![ChunkIdx(chs, ch.name)] = ch]

pos_in_rect(pos, rect) ==
    /\ Min(rect[1], rect[3]) <= pos[1] /\ pos[1] <= Max(rect[1], rect[3])
    /\ Min(rect[2], rect[4]) <= pos[2] /\ pos[2] <= Max(rect[2], rect[4])

\* The queen-like type made for an unknown type name.
QueenLike(g, tname) ==
    LET base == g.piece_types["queen"] IN
    PieceType(tname, base.kind, base.directions, base.max_range, base.can_jump)

WithType(g, tname) ==
    IF tname \in DOMAIN g.piece_types THEN g.piece_types
    ELSE [n \in DOMAIN g.piece_types \cup {tname} |->
            IF n = tname THEN QueenLike(g, tname) ELSE g.piece_types[n]]

\* The in-bounds cells of the i-th chunk's rectangle, corners in either order.
chunk_cells(g, i) == {sq \in DOMAIN g.board : pos_in_rect(sq, g.chunks[i].rect)}

\* A switch-off that clears the pieces and marks no square damaged.
toggle_chunk_off_unmarked(g, i) ==
    [g EXCEPT !.board = [sq \in DOMAIN g.board |->
                            IF sq \in chunk_cells(g, i) THEN None ELSE g.board[sq]],
              !.chunks[i].active = FALSE]

\* "Turn OFF: mark damaged and clear pieces"
toggle_chunk_off(g, i) ==
    [g EXCEPT !.board = [sq \in DOMAIN g.board |->
                            IF sq \in chunk_cells(g, i) THEN None ELSE g.board[sq]],
              !.damaged = g.damaged \cup chunk_cells(g, i),
              !.chunks[i].active = FALSE]

\* A switch-on whose fill replaces the pieces that stand in the rectangle.
toggle_chunk_on_overfill(g, i) ==
    LET ch == g.chunks[i]
        g1 == [g EXCEPT !.damaged = g.damaged \ chunk_cells(g, i),
                        !.chunks[i].active = TRUE]
    IN  IF ch.fill = None THEN g1
        ELSE [g1 EXCEPT
                !.piece_types = WithType(g, ch.fill[1].type),
                !.board = [sq \in DOMAIN g.board |->
                    IF sq \in chunk_cells(g, i)
                    THEN Some(Piece(ch.fill[1].color, ch.fill[1].type,
                                    Initial(ch.fill[1].type)))
                    ELSE g.board[sq]]]

\* "Turn ON: undamage region and optionally fill pieces"
toggle_chunk_on(g, i) ==
    LET ch == g.chunks[i]
        g1 == [g EXCEPT !.damaged = g.damaged \ chunk_cells(g, i),
                        !.chunks[i].active = TRUE]
    IN  IF ch.fill = None THEN g1
        ELSE [g1 EXCEPT
                !.piece_types = WithType(g, ch.fill[1].type),
                !.board = [sq \in DOMAIN g.board |->
                    IF sq \in chunk_cells(g, i) /\ g.board[sq] = None
                    THEN Some(Piece(ch.fill[1].color, ch.fill[1].type,
                                    Initial(ch.fill[1].type)))
                    ELSE g.board[sq]]]

\* A toggle that asks nobody whose chunk it is.
toggle_chunk_unowned(g, name, mover_color) ==
    LET i == ChunkIdx(g.chunks, name) IN
    IF i = 0 THEN g
    ELSE IF g.chunks[i].active THEN toggle_chunk_off(g, i) ELSE toggle_chunk_on(g, i)

\* mover_color is None for the DSL's "chunk on / chunk off".
toggle_chunk(g, name, mover_color) ==
    LET i == ChunkIdx(g.chunks, name) IN
    IF i = 0 THEN g
    ELSE IF mover_color # None /\ g.chunks[i].owner \in {"white", "black"}
            /\ mover_color[1] # g.chunks[i].owner
         THEN g
    ELSE IF g.chunks[i].active THEN toggle_chunk_off(g, i) ELSE toggle_chunk_on(g, i)

EdgeNames == <<"left", "right", "bottom", "top">>

\* A rectangle centred on the piece with no clamp at the low end.
spawn_rect_unclamped(g, x, y, edge, w, h) ==
    IF edge \in {"left", "right"}
    THEN <<IF edge = "left" THEN 0 ELSE Max(0, (g.cols - 1) - w + 1),
           y - h \div 2,
           IF edge = "left" THEN Min(g.cols - 1, 0 + w - 1) ELSE g.cols - 1,
           Min(g.rows - 1, (y - h \div 2) + h - 1)>>
    ELSE <<x - w \div 2,
           IF edge = "bottom" THEN 0 ELSE Max(0, (g.rows - 1) - h + 1),
           Min(g.cols - 1, (x - w \div 2) + w - 1),
           IF edge = "bottom" THEN Min(g.rows - 1, 0 + h - 1) ELSE g.rows - 1>>

\* "clamp to board and attach to edge closest to piece": [x1, y1, x2, y2]
spawn_rect(g, x, y, edge, w, h) ==
    LET side == edge \in {"left", "right"}
        sy1 == Max(0, y - h \div 2)
        sx1 == Max(0, x - w \div 2)
        x1 == IF edge = "left" THEN 0
              ELSE IF edge = "right" THEN Max(0, (g.cols - 1) - w + 1)
              ELSE sx1
        x2 == IF edge = "left" THEN Min(g.cols - 1, 0 + w - 1)
              ELSE IF edge = "right" THEN g.cols - 1
              ELSE Min(g.cols - 1, sx1 + w - 1)
        y1 == IF side THEN sy1
              ELSE IF edge = "bottom" THEN 0
              ELSE Max(0, (g.rows - 1) - h + 1)
        y2 == IF side THEN Min(g.rows - 1, sy1 + h - 1)
              ELSE IF edge = "bottom" THEN Min(g.rows - 1, 0 + h - 1)
              ELSE g.rows - 1
    IN  <<x1, y1, x2, y2>>

\* nearest_edges = [e for e, d in dists.items() if d == mind], as indices of EdgeNames
nearest_edges(g, pos) ==
    LET dists == <<pos[1], g.cols - 1 - pos[1], pos[2], g.rows - 1 - pos[2]>>
        mind == Min(Min(dists[1], dists[2]), Min(dists[3], dists[4]))
    IN  SelectSeq(<<1, 2, 3, 4>>, LAMBDA e : dists[e] = mind)

\* draw.e, draw.w and draw.h are the outcomes of random.choice(nearest_edges),
\* random.randint(minw, min(maxw, cols)) and random.randint(minh, min(maxh, rows)).
\* randint(a, b) raises ValueError when a > b.
spawn_random_chunk_near_edge(g, pos, trig, draw) ==
    LET x == pos[1]
        y == pos[2]
        mind == Min(Min(x, g.cols - 1 - x), Min(y, g.rows - 1 - y))
        near == nearest_edges(g, pos)
        edge == EdgeNames[near[(draw.e % Len(near)) + 1]]
        minw == Max(1, trig.minw)
        maxw == Max(minw, trig.maxw)
        minh == Max(1, trig.minh)
        maxh == Max(minh, trig.maxh)
        name == "rand_" \o ToString(g.rand_chunk_counter)
    IN  IF mind > trig.dist THEN g
        ELSE IF minw > Min(maxw, g.cols) \/ minh > Min(maxh, g.rows)
        THEN [g EXCEPT !.exc = "ValueError"]
        ELSE [g EXCEPT !.rand_chunk_counter = g.rand_chunk_counter + 1,
                       !.chunks = SetChunk(g.chunks,
                                     Chunk(name, spawn_rect(g, x, y, edge, draw.w, draw.h)))]

\* The values random.randint can return for a trigger's width and height, and the
\* indices random.choice can return; a trigger that is not random draws nothing.
DrawsOf(g, trig) ==
    IF trig.mode # "random" THEN {[e |-> 0, w |-> 0, h |-> 0]}
    ELSE LET minw == Max(1, trig.minw)
             maxw == Max(minw, trig.maxw)
             minh == Max(1, trig.minh)
             maxh == Max(minh, trig.maxh)
             ws == minw .. Min(maxw, g.cols)
             hs == minh .. Min(maxh, g.rows)
         IN  [e : 0 .. 3,
              w : IF ws = {} THEN {0} ELSE ws,
              h : IF hs = {} THEN {0} ELSE hs]

\* One draw per registered trigger.
Draws(g) ==
    LET n == Len(g.edge_triggers)
        all == UNION {DrawsOf(g, g.edge_triggers[i]) : i \in 1 .. n}
    IN  {d \in [1 .. n -> all] : \A i \in 1 .. n : d[i] \in DrawsOf(g, g.edge_triggers[i])}

\* "for trig in self.edge_triggers" from the i-th trigger on.  st.g is the engine,
\* st.on tells whether the piece that moved still stands on pos.
RECURSIVE EdgeLoop(_, _, _, _, _, _)
EdgeLoop(st, tname, color, pos, draws, i) ==
    LET g == st.g
        min_dist == Min(Min(pos[1], g.cols - 1 - pos[1]),
                        Min(pos[2], g.rows - 1 - pos[2]))
    IN  IF i > Len(g.edge_triggers) \/ g.exc # "none" THEN st
        ELSE LET trig == g.edge_triggers[i]
                 g2 == IF (trig.type # "any" /\ trig.type # tname) THEN g
                       ELSE IF min_dist > trig.dist THEN g
                       ELSE IF trig.mode = "random"
                            THEN spawn_random_chunk_near_edge(g, pos, trig, draws[i])
                       ELSE IF trig.chunk = "" THEN g
                       ELSE toggle_chunk(g, trig.chunk, Some(color))
             IN  EdgeLoop([g |-> g2, on |-> st.on /\ g2.board[pos] # None],
                          tname, color, pos, draws, i + 1)

\* A trigger loop that is not told the type of the piece that moved.
check_edge_triggers_untyped(st, tname, color, pos, draws) ==
    EdgeLoop(st, "any", color, pos, draws, 1)

check_edge_triggers(st, tname, color, pos, draws) ==
    EdgeLoop(st, tname, color, pos, draws, 1)

\* An override that the script "none" does not clear.
apply_chunk_script_override_sticky(ov, scr) ==
    IF scr = None THEN ov
    ELSE IF scr[1].name = "" \/ scr[1].name = "none" THEN ov
    ELSE Some([name |-> scr[1].name, param |-> scr[1].param])

\* The piece's script override after a chunk script is applied to it.
apply_chunk_script_override(ov, scr) ==
    IF scr = None THEN ov
    ELSE IF scr[1].name = "" THEN ov
    ELSE IF scr[1].name = "none" THEN None
    ELSE Some([name |-> scr[1].name, param |-> scr[1].param])

\* "for name, ch in self.chunks.items()" from the i-th chunk on.
RECURSIVE ChunkLoop(_, _, _, _, _, _)
ChunkLoop(chs, ov, color, from_sq, to_sq, i) ==
    IF i > Len(chs) THEN ov
    ELSE LET ch == chs[i]
             in_from == pos_in_rect(from_sq, ch.rect)
             in_to == pos_in_rect(to_sq, ch.rect)
             ov2 == IF ~ch.active THEN ov
                    ELSE IF ch.owner \in {"white", "black"} /\ color # ch.owner THEN ov
                    ELSE IF in_to /\ ~in_from
                         THEN apply_chunk_script_override(ov, ch.enter_script)
                    ELSE IF in_from /\ ~in_to
                         THEN apply_chunk_script_override(ov, ch.leave_script)
                    ELSE ov
         IN  ChunkLoop(chs, ov2, color, from_sq, to_sq, i + 1)

\* The overrides land on the piece object that moved; they show on the board
\* only while that object still stands on to_sq (st.on).
apply_chunk_entry_exit(st, color, from_sq, to_sq) ==
    IF ~st.on THEN st
    ELSE LET piece == st.g.board[to_sq][1]
             ov == ChunkLoop(st.g.chunks, piece.state.script_override, color,
                             from_sq, to_sq, 1)
         IN  [st EXCEPT !.g.board[to_sq] =
                 Some([piece EXCEPT !.state.script_override = ov])]

(***************************************************************************)
(* try_make_move                                                           *)
(***************************************************************************)
piece_name(cell) ==
    IF cell = None THEN "none" ELSE cell[1].color \o "_" \o cell[1].type_name

MoveMsg(g, from_sq, to_sq, captured_name) ==
    [addr |-> "/move", fullmove |-> g.fullmove, from |-> from_sq, to |-> to_sq,
     captured |-> captured_name]

\* is_capture = target is not None and capture_mode != "none"
IsCapture(g, to_sq) == g.board[to_sq] # None /\ g.rules.capture_mode # "none"

\* radius = max(0, base_radius + max(0, heat_bonus))
ExplosionRadius(g, piece, ptype) ==
    LET global == IF g.rules.atomic_radius < 0 THEN 0 ELSE g.rules.atomic_radius
        base_radius == IF ptype.explosion_radius # None
                       THEN Max(0, ptype.explosion_radius[1]) ELSE global
    IN  Max(0, base_radius + Max(0, piece.state.heat_bonus))

Chebyshev(a, b) ==
    Max(IF a[1] > b[1] THEN a[1] - b[1] ELSE b[1] - a[1],
        IF a[2] > b[2] THEN a[2] - b[2] ELSE b[2] - a[2])

\* "Move piece first": the piece leaves from_sq and occupies to_sq.
board_write(g, from_sq, to_sq) ==
    [g EXCEPT !.board = [sq \in DOMAIN g.board |->
        IF sq = to_sq THEN g.board[from_sq]
        ELSE IF sq = from_sq THEN None
        ELSE g.board[sq]]]

\* A blast that spares the pieces of the mover's colour.
explode_sparing_own(g, to_sq, radius) ==
    [g EXCEPT !.board = [sq \in DOMAIN g.board |->
        IF /\ Chebyshev(sq, to_sq) <= radius /\ sq # to_sq
           /\ g.board[sq] # None
           /\ g.board[sq][1].color # g.board[to_sq][1].color
        THEN None
        ELSE IF sq = to_sq /\ ~g.rules.center_survives THEN None
        ELSE g.board[sq]]]

\* A blast whose centre always survives.
explode_center_kept(g, to_sq, radius) ==
    [g EXCEPT !.board = [sq \in DOMAIN g.board |->
        IF /\ Chebyshev(sq, to_sq) <= radius /\ sq # to_sq
           /\ g.board[sq] # None
           /\ ~(/\ g.board[sq][1].type_name \in DOMAIN g.piece_types
                /\ g.piece_types[g.board[sq][1].type_name].immune_to_explosion)
        THEN None
        ELSE g.board[sq]]]

\* The blast of an atomic capture on to_sq (radius > 0).
explode(g, to_sq, radius) ==
    LET center_survives == g.rules.center_survives
        hit(sq) == /\ Chebyshev(sq, to_sq) <= radius
                   /\ ~(center_survives /\ sq = to_sq)
                   /\ g.board[sq] # None
                   /\ ~(/\ g.board[sq][1].type_name \in DOMAIN g.piece_types
                        /\ g.piece_types[g.board[sq][1].type_name].immune_to_explosion)
    IN  [g EXCEPT !.board = [sq \in DOMAIN g.board |->
            IF hit(sq) THEN None
            ELSE IF sq = to_sq /\ ~center_survives THEN None
            ELSE g.board[sq]]]

\* A capture resolution that marks no square damaged.
resolve_capture_unmarked(g, piece, ptype, to_sq, is_capture) ==
    IF is_capture /\ g.rules.capture_mode = "atomic"
       /\ ExplosionRadius(g, piece, ptype) > 0
    THEN [g EXCEPT !.board = [sq \in DOMAIN g.board |->
            IF Chebyshev(sq, to_sq) <= ExplosionRadius(g, piece, ptype)
               /\ ~(g.rules.center_survives /\ sq = to_sq)
            THEN None ELSE g.board[sq]]]
    ELSE g

\* "Handle capture modes", on the board as written: g is the engine after
\* board_write, piece the piece that moved, is_capture as computed before it.
resolve_capture(g, piece, ptype, to_sq, is_capture) ==
    IF ~is_capture THEN g
    ELSE IF g.rules.capture_mode = "normal" THEN g
    ELSE IF g.rules.capture_mode = "atomic"
    THEN LET radius == ExplosionRadius(g, piece, ptype)
             g1 == IF radius > 0 THEN explode(g, to_sq, radius) ELSE g
         IN  IF g.rules.center_damages
             THEN [g1 EXCEPT !.damaged = g1.damaged \cup {to_sq}]
             ELSE g1
    ELSE g

\* The engine after the board write and the capture of a move from_sq -> to_sq
\* that passed the legality check and the pre-move hook.
MoveAndCapture(g, from_sq, to_sq) ==
    LET piece == g.board[from_sq][1]
        ptype == g.piece_types[piece.type_name]
    IN  resolve_capture(board_write(g, from_sq, to_sq), piece, ptype, to_sq,
                        IsCapture(g, to_sq))

\* last_move, the post-move script "if piece survived", the turn and fullmove
\* handoff, the /move message and the cleared selection.
PostMove(g0, g, from_sq, to_sq) ==
    LET piece == g0.board[from_sq][1]
        ptype == g0.piece_types[piece.type_name]
        g1 == [g EXCEPT !.last_move = Some(<<from_sq, to_sq>>)]
        g2 == IF g1.board[to_sq] # None THEN apply_script_post_move(g1, ptype, to_sq)
              ELSE g1
        g3 == [g2 EXCEPT !.fullmove = IF g2.turn = "black" THEN g2.fullmove + 1
                                      ELSE g2.fullmove,
                         !.turn = IF g2.turn = "black" THEN "white" ELSE "black"]
    IN  [g3 EXCEPT !.osc_out = Append(g3.osc_out,
                        MoveMsg(g3, from_sq, to_sq, piece_name(g0.board[to_sq]))),
                   !.selected_square = None]

\* check_edge_triggers, then apply_chunk_entry_exit, as try_make_move calls them;
\* an exception raised by the first leaves the second undone.
Reactions(g, tname, color, from_sq, to_sq, draws) ==
    LET st0 == [g |-> g, on |-> g.board[to_sq] # None]
        st1 == check_edge_triggers(st0, tname, color, to_sq, draws)
    IN  IF st1.g.exc # "none" THEN st1.g
        ELSE apply_chunk_entry_exit(st1, color, from_sq, to_sq).g

\* The move from_sq -> to_sq once accepted: everything from the board write on.
CompleteMove(g, from_sq, to_sq, draws) ==
    LET piece == g.board[from_sq][1]
        g1 == PostMove(g, MoveAndCapture(g, from_sq, to_sq), from_sq, to_sq)
        g2 == Reactions(g1, piece.type_name, piece.color, from_sq, to_sq, draws)
    IN  IF g2.exc # "none" THEN g2 ELSE update_game_over(g2)

\* An attempt that carries the move out to the chosen square when the script
\* cancels it.
try_make_move_uncancelled(g, from_sq, to_sq, coin, pick, draws) ==
    IF g.board[from_sq] = None THEN [g |-> g, moved |-> FALSE]
    ELSE IF to_sq \notin Range(generate_moves_for_piece(g, from_sq[1], from_sq[2]))
    THEN [g |-> g, moved |-> FALSE]
    ELSE [g |-> CompleteMove(g, from_sq, to_sq, draws), moved |-> TRUE]

\* [g, moved]: the engine after the call and the value it returns.
try_make_move(g, from_sq, to_sq, coin, pick, draws) ==
    IF g.board[from_sq] = None THEN [g |-> g, moved |-> FALSE]
    ELSE LET piece == g.board[from_sq][1]
             legal == generate_moves_for_piece(g, from_sq[1], from_sq[2])
         IN  IF to_sq \notin Range(legal) THEN [g |-> g, moved |-> FALSE]
             ELSE LET ptype == g.piece_types[piece.type_name]
                      new_target == apply_script_pre_move(piece, ptype, to_sq, legal,
                                                          coin, pick)
                  IN  IF new_target = None THEN [g |-> g, moved |-> FALSE]
                      ELSE IF ~in_bounds(g, new_target[1][1], new_target[1][2])
                      THEN [g |-> g, moved |-> FALSE]
                      ELSE [g |-> CompleteMove(g, from_sq, new_target[1], draws),
                            moved |-> TRUE]

(***************************************************************************)
(* handle_click                                                            *)
(***************************************************************************)
\* self.selected_square = (x, y)
select_square(g, sq) == [g EXCEPT !.selected_square = Some(sq)]

\* The click that follows an attempted move: r is what try_make_move returned.
click_after_move(r, sq) ==
    IF r.moved \/ r.g.exc # "none" THEN r.g
    ELSE IF r.g.board[sq] # None /\ r.g.board[sq][1].color = r.g.turn
         THEN select_square(r.g, sq) ELSE r.g

\* A click handler whose second click carries the move out without asking
\* try_make_move.
handle_click_forced(g, sq, coin, pick, draws) ==
    IF g.selected_square = None THEN g
    ELSE IF g.board[g.selected_square[1]] = None \/ Some(sq) = g.selected_square THEN g
    ELSE CompleteMove(g, g.selected_square[1], sq, draws)

\* A left click on the square sq, outside the DSL mode.
handle_click(g, sq, coin, pick, draws) ==
    IF g.game_over THEN g
    ELSE IF g.selected_square = None
         THEN IF g.board[sq] # None /\ g.board[sq][1].color = g.turn
              THEN select_square(g, sq) ELSE g
    ELSE IF Some(sq) = g.selected_square
         THEN [g EXCEPT !.selected_square = None]
    ELSE click_after_move(try_make_move(g, g.selected_square[1], sq, coin, pick, draws),
                          sq)

(***************************************************************************)
(* Board set-up and the DSL commands                                       *)
(***************************************************************************)
Clamp(lo, hi, v) == Max(lo, Min(hi, v))

EmptyBoard(c, r) == [sq \in Squares(c, r) |-> None]

\* Hard reset of the board size; the rules, the piece types, the chunks and the
\* edge triggers are not touched here.
resize_board(g, c, r) ==
    LET nc == Clamp(MinBoardDim, MaxBoardDim, c)
        nr == Clamp(MinBoardDim, MaxBoardDim, r)
    IN  [g EXCEPT !.cols = nc, !.rows = nr, !.board = EmptyBoard(nc, nr),
                  !.selected_square = None, !.last_move = None,
                  !.turn = "white", !.fullmove = 1, !.game_over = FALSE,
                  !.result_text = "", !.damaged = {}, !.elapsed_s = 0]

clear_board(g) == [g EXCEPT !.board = EmptyBoard(g.cols, g.rows), !.damaged = {}]

place_piece(g, x, y, piece) ==
    IF in_bounds(g, x, y) THEN [g EXCEPT !.board[<<x, y>>] = Some(piece)] ELSE g

BackRank == <<"rook", "knight", "bishop", "queen", "king", "bishop", "knight", "rook">>
BackSymbol == <<"R", "N", "B", "Q", "K", "B", "N", "R">>

setup_standard_position(g) ==
    LET g1 == resize_board(g, StdBoardDim, StdBoardDim) IN
    [g1 EXCEPT !.board = [sq \in Squares(StdBoardDim, StdBoardDim) |->
        CASE sq[2] = 0 -> Some(Piece("white", BackRank[sq[1] + 1], BackSymbol[sq[1] + 1]))
          [] sq[2] = 1 -> Some(Piece("white", "pawn", "P"))
          [] sq[2] = 6 -> Some(Piece("black", "pawn", "P"))
          [] sq[2] = 7 -> Some(Piece("black", BackRank[sq[1] + 1], BackSymbol[sq[1] + 1]))
          [] OTHER -> None]]

\* "standard", and the R key (reset_game).
reset_game(g) ==
    [setup_standard_position([g EXCEPT !.rules = init_default_rules,
                                       !.piece_types = init_default_piece_types])
        EXCEPT !.chunks = <<>>, !.edge_triggers = <<>>]

\* "board W H"
dsl_board(g, w, h) ==
    [clear_board(resize_board(g, w, h)) EXCEPT !.chunks = <<>>, !.edge_triggers = <<>>]

\* "add c t x y": an unknown type is created queen-like even when the square is
\* off the board.
dsl_add(g, color, tname, x, y) ==
    IF color \notin {"white", "black"} THEN g
    ELSE place_piece([g EXCEPT !.piece_types = WithType(g, tname)], x, y,
                     Piece(color, tname, Initial(tname)))

\* "move t base"
dsl_move(g, tname, base_name) ==
    IF base_name \notin DOMAIN g.piece_types THEN g
    ELSE LET base == g.piece_types[base_name]
             pt == IF tname \in DOMAIN g.piece_types THEN g.piece_types[tname]
                   ELSE PieceType(tname, base.kind, <<>>, Some(1), FALSE)
             npt == [pt EXCEPT !.kind = base.kind, !.directions = base.directions,
                               !.max_range = base.max_range, !.can_jump = base.can_jump]
         IN  [g EXCEPT !.piece_types =
                 [n \in DOMAIN g.piece_types \cup {tname} |->
                     IF n = tname THEN npt ELSE g.piece_types[n]]]

\* "ptype t SUB ...": val is the argument after it has been parsed (an integer,
\* the truth of "val in (on, true, 1, yes)", a list of vectors, or for script the
\* pair <<mode, number>>).
dsl_ptype(g, tname, sub, val) ==
    IF tname \notin DOMAIN g.piece_types THEN g
    ELSE LET pt == g.piece_types[tname]
             npt ==
               CASE sub = "explode" -> [pt EXCEPT !.explosion_radius = Some(Max(0, val))]
                 [] sub = "immune" -> [pt EXCEPT !.immune_to_explosion = val]
                 [] sub = "damaged_ok" -> [pt EXCEPT !.damaged_ok = val]
                 [] sub = "royal" -> [pt EXCEPT !.is_royal = val]
                 [] sub = "range" -> [pt EXCEPT !.max_range =
                                          IF val <= 0 THEN None ELSE Some(val)]
                 [] sub = "jump" -> [pt EXCEPT !.can_jump = val]
                 [] sub = "dirs" -> [pt EXCEPT !.directions = val]
                 [] sub = "clear_dirs" -> [pt EXCEPT !.directions = <<>>]
                 [] sub = "script" ->
                      IF val[1] = "none"
                      THEN [pt EXCEPT !.script_name = None, !.script_param = 0]
                      ELSE IF val[1] \in {"jitter", "stutter", "entropy"}
                      THEN [pt EXCEPT !.script_name = Some(val[1]), !.script_param = val[2]]
                      ELSE IF val[1] \in {"decay", "charge", "heat"}
                      THEN [pt EXCEPT !.script_name = Some(val[1]),
                                      !.script_param = IF val[2] <= 0 THEN 1 ELSE val[2]]
                      ELSE pt
                 [] OTHER -> pt
         IN  [g EXCEPT !.piece_types[tname] = npt]

\* "rule KEY VALUE"
dsl_rule(g, key, val) ==
    CASE key = "capture" ->
           IF val \in {"atomic", "normal", "none"}
           THEN [g EXCEPT !.rules.capture_mode = val] ELSE g
      [] key = "atomic_radius" -> [g EXCEPT !.rules.atomic_radius = Max(0, val)]
      [] key = "center_damages" -> [g EXCEPT !.rules.center_damages = val]
      [] key = "center_survives" -> [g EXCEPT !.rules.center_survives = val]
      [] key = "damage_blocks" -> [g EXCEPT !.rules.damage_blocks_move = val]
      [] key = "victory" ->
           IF val \in {"elimination", "king", "king_capture", "none"}
           THEN [g EXCEPT !.rules.victory = IF val = "king" THEN "king_capture" ELSE val]
           ELSE g
      [] key = "max_moves" -> [g EXCEPT !.rules.max_fullmoves = Max(0, val)]
      [] key = "max_time" ->
           [g EXCEPT !.rules.max_seconds = Max(0, val),
                     !.elapsed_s = IF val > 0 THEN 0 ELSE g.elapsed_s]
      [] key = "limit_result" ->
           IF val \in {"draw", "white", "black"}
           THEN [g EXCEPT !.rules.limit_result = val] ELSE g
      [] OTHER -> g

\* "chunk define NAME x1 y1 x2 y2": the corners are stored as given.
dsl_chunk_define(g, name, rect) ==
    [g EXCEPT !.chunks = SetChunk(g.chunks, Chunk(name, rect))]

\* "chunk fill NAME colour type": the fill is stored, then the message is
\* formatted with the undefined name "colour" and NameError leaves run().
dsl_chunk_fill(g, name, color, tname) ==
    LET i == ChunkIdx(g.chunks, name) IN
    IF i = 0 THEN g
    ELSE [g EXCEPT !.chunks[i].fill = Some([color |-> color, type |-> tname]),
                   !.exc = "NameError"]

\* "chunk owner NAME white|black|any"
dsl_chunk_owner(g, name, color) ==
    LET i == ChunkIdx(g.chunks, name) IN
    IF i = 0 \/ color \notin {"white", "black", "any"} THEN g
    ELSE [g EXCEPT !.chunks[i].owner = color]

\* "chunk script NAME enter|leave MODE [ARG]", ARG parsed
dsl_chunk_script(g, name, phase, mode, arg) ==
    LET i == ChunkIdx(g.chunks, name)
        scr == IF mode = "none" THEN Some([name |-> "none", param |-> 0])
               ELSE IF mode \in {"jitter", "stutter", "entropy"}
               THEN Some([name |-> mode, param |-> arg])
               ELSE Some([name |-> mode, param |-> IF arg <= 0 THEN 1 ELSE arg])
    IN  IF i = 0 \/ phase \notin {"enter", "leave"} THEN g
        ELSE IF mode \notin {"none", "jitter", "stutter", "entropy", "decay", "charge", "heat"}
        THEN g
        ELSE IF phase = "enter" THEN [g EXCEPT !.chunks[i].enter_script = scr]
        ELSE [g EXCEPT !.chunks[i].leave_script = scr]

\* "chunk on NAME" and "chunk off NAME" both call toggle_chunk(name).
dsl_chunk_on(g, name) == toggle_chunk(g, name, None)
dsl_chunk_off(g, name) == toggle_chunk(g, name, None)

\* "chunk reset"
dsl_chunk_reset(g) == [g EXCEPT !.chunks = <<>>, !.edge_triggers = <<>>]

EdgeTrigger(type, dist, mode, chunk, minw, maxw, minh, maxh) ==
    [type |-> type, dist |-> dist, mode |-> mode, chunk |-> chunk,
     minw |-> minw, maxw |-> maxw, minh |-> minh, maxh |-> maxh]

\* An "edge add" that registers the trigger without looking the chunk up.
dsl_edge_add_unchecked(g, ttype, dist, chunk) ==
    [g EXCEPT !.edge_triggers =
        Append(g.edge_triggers,
               EdgeTrigger(ttype, Max(0, dist), "chunk", chunk, 0, 0, 0, 0))]

\* "edge add TYPE DIST CHUNK"
dsl_edge_add(g, ttype, dist, chunk) ==
    IF ChunkIdx(g.chunks, chunk) = 0 THEN g
    ELSE [g EXCEPT !.edge_triggers =
            Append(g.edge_triggers,
                   EdgeTrigger(ttype, Max(0, dist), "chunk", chunk, 0, 0, 0, 0))]

\* "edge random TYPE DIST MINW MAXW MINH MAXH"
dsl_edge_random(g, ttype, dist, minw, maxw, minh, maxh) ==
    [g EXCEPT !.edge_triggers =
        Append(g.edge_triggers,
               EdgeTrigger(ttype, Max(0, dist), "random", "",
                           Max(1, minw), maxw, Max(1, minh), maxh))]

\* "edge clear"
dsl_edge_clear(g) == [g EXCEPT !.edge_triggers = <<>>]

\* The dispatch of process_dsl_command on a tokenised command line.
process_dsl_command(g, cmd) ==
    CASE cmd[1] = "standard" -> reset_game(g)
      [] cmd[1] = "board" -> dsl_board(g, cmd[2], cmd[3])
      [] cmd[1] = "clear" -> clear_board(g)
      [] cmd[1] = "add" -> dsl_add(g, cmd[2], cmd[3], cmd[4], cmd[5])
      [] cmd[1] = "move" -> dsl_move(g, cmd[2], cmd[3])
      [] cmd[1] = "ptype" -> dsl_ptype(g, cmd[2], cmd[3], cmd[4])
      [] cmd[1] = "rule" -> dsl_rule(g, cmd[2], cmd[3])
      [] cmd[1] = "chunk" /\ cmd[2] = "define" -> dsl_chunk_define(g, cmd[3], cmd[4])
      [] cmd[1] = "chunk" /\ cmd[2] = "fill" -> dsl_chunk_fill(g, cmd[3], cmd[4], cmd[5])
      [] cmd[1] = "chunk" /\ cmd[2] = "owner" -> dsl_chunk_owner(g, cmd[3], cmd[4])
      [] cmd[1] = "chunk" /\ cmd[2] = "script" ->
            dsl_chunk_script(g, cmd[3], cmd[4], cmd[5], cmd[6])
      [] cmd[1] = "chunk" /\ cmd[2] = "on" -> dsl_chunk_on(g, cmd[3])
      [] cmd[1] = "chunk" /\ cmd[2] = "off" -> dsl_chunk_off(g, cmd[3])
      [] cmd[1] = "chunk" /\ cmd[2] = "reset" -> dsl_chunk_reset(g)
      [] cmd[1] = "edge" /\ cmd[2] = "add" -> dsl_edge_add(g, cmd[3], cmd[4], cmd[5])
      [] cmd[1] = "edge" /\ cmd[2] = "random" ->
            dsl_edge_random(g, cmd[3], cmd[4], cmd[5], cmd[6], cmd[7], cmd[8])
      [] cmd[1] = "edge" /\ cmd[2] = "clear" -> dsl_edge_clear(g)
      [] OTHER -> g

\* The tokens of a command line that the handlers pass to int() or float(): such
\* a token is written Some(n) when the conversion returns n and None when it
\* raises ValueError.  IntAt gives the positions of single tokens, IntsAt the
\* positions of token lists (the corners of a rectangle, the components of the
\* direction vectors).
ScriptModes == {"jitter", "stutter", "entropy", "decay", "charge", "heat"}

IntAt(parts) ==
    CASE parts[1] = "board" -> {2, 3}
      [] parts[1] = "add" -> {4, 5}
      [] parts[1] = "ptype" /\ parts[3] \in {"explode", "range"} -> {4}
      [] parts[1] = "rule" /\ parts[2] \in {"atomic_radius", "max_moves", "max_time"} -> {3}
      [] parts[1] = "chunk" /\ parts[2] = "script" /\ parts[5] \in ScriptModes -> {6}
      [] parts[1] = "edge" /\ parts[2] = "add" -> {4}
      [] parts[1] = "edge" /\ parts[2] = "random" -> 4 .. 8
      [] OTHER -> {}

IntsAt(parts) ==
    CASE parts[1] = "ptype" /\ parts[3] = "dirs" -> {4}
      [] parts[1] = "chunk" /\ parts[2] = "define" -> {4}
      [] OTHER -> {}

\* process_dsl_command on a line whose numeric tokens are still to be converted:
\* every handler converts inside try/except ValueError before it assigns
\* anything, and "ptype t dirs" first asks for an even number of components.
process_dsl_line(g, parts) ==
    LET dirs == parts[1] = "ptype" /\ parts[3] = "dirs"
        script == parts[1] = "ptype" /\ parts[3] = "script"
    IN  IF \E i \in IntAt(parts) : parts[i] = None THEN g
        ELSE IF \E i \in IntsAt(parts) : \E j \in DOMAIN parts[i] : parts[i][j] = None
        THEN g
        ELSE IF dirs /\ (Len(parts[4]) < 2 \/ Len(parts[4]) % 2 # 0) THEN g
        ELSE IF script /\ parts[4][1] \in ScriptModes /\ parts[4][2] = None THEN g
        ELSE process_dsl_command(g,
               [i \in DOMAIN parts |->
                  IF i \in IntAt(parts) THEN parts[i][1]
                  ELSE IF dirs /\ i = 4
                  THEN [k \in 1 .. Len(parts[4]) \div 2 |->
                          <<parts[4][2 * k - 1][1], parts[4][2 * k][1]>>]
                  ELSE IF i \in IntsAt(parts)
                  THEN [k \in DOMAIN parts[i] |-> parts[i][k][1]]
                  ELSE IF script /\ i = 4 /\ parts[4][1] \in ScriptModes
                  THEN <<parts[4][1], parts[4][2][1]>>
                  ELSE parts[i]])

\* The commands of a script, entered one after the other.
RECURSIVE RunScript(_, _)
RunScript(g, script) ==
    IF script = <<>> \/ g.exc # "none" THEN g
    ELSE RunScript(process_dsl_command(g, Head(script)), Tail(script))

(***************************************************************************)
(* The configuration codec                                                 *)
(***************************************************************************)
export_config(g) ==
    LET occupied == SelectSeq(RowMajor(g.cols, g.rows), LAMBDA sq : g.board[sq] # None) IN
    [cols |-> g.cols, rows |-> g.rows, turn |-> g.turn, fullmove |-> g.fullmove,
     damaged |-> g.damaged,
     piece_types |-> [n \in DOMAIN g.piece_types |->
        LET pt == g.piece_types[n] IN
        [kind |-> pt.kind, directions |-> pt.directions, max_range |-> pt.max_range,
         can_jump |-> pt.can_jump, explosion_radius |-> pt.explosion_radius,
         immune_to_explosion |-> pt.immune_to_explosion, damaged_ok |-> pt.damaged_ok,
         is_royal |-> pt.is_royal, script_name |-> pt.script_name,
         script_param |-> pt.script_param]],
     board |-> [i \in 1 .. Len(occupied) |->
        LET p == g.board[occupied[i]][1] IN
        [x |-> occupied[i][1], y |-> occupied[i][2], color |-> p.color,
         type |-> p.type_name, symbol |-> p.symbol]],
     rules |-> g.rules,
     chunks |-> g.chunks,
     edge_triggers |-> g.edge_triggers]

\* "for name, data in cfg_chunks.items()" from the i-th entry on.
RECURSIVE ImportChunks(_, _, _)
ImportChunks(chs, data, i) ==
    IF i > Len(data) THEN chs
    ELSE LET d == data[i]
             ch == [name |-> d.name, rect |-> d.rect, fill |-> d.fill,
                    active |-> d.active,
                    owner |-> IF d.owner \in {"white", "black", "any"} THEN d.owner
                              ELSE "any",
                    enter_script |-> d.enter_script, leave_script |-> d.leave_script]
         IN  ImportChunks(SetChunk(chs, ch), data, i + 1)

\* An import that keeps no edge trigger.
ImportTriggers_dropped(trigs) == <<>>

ImportTriggers(trigs) ==
    LET keep == SelectSeq(trigs, LAMBDA t : t.mode = "random" \/ t.chunk # "") IN
    [i \in 1 .. Len(keep) |->
        LET t == keep[i] IN
        IF t.mode = "random"
        THEN EdgeTrigger(t.type, Max(0, t.dist), "random", "", t.minw, t.maxw, t.minh, t.maxh)
        ELSE EdgeTrigger(t.type, Max(0, t.dist), "chunk", t.chunk, 0, 0, 0, 0)]

ImportPieceTypes(pt_cfg) ==
    LET made == [n \in DOMAIN pt_cfg |->
                    LET d == pt_cfg[n] IN
                    [name |-> n, kind |-> d.kind, directions |-> d.directions,
                     max_range |-> d.max_range, can_jump |-> d.can_jump,
                     explosion_radius |-> d.explosion_radius,
                     immune_to_explosion |-> d.immune_to_explosion,
                     damaged_ok |-> d.damaged_ok, is_royal |-> d.is_royal,
                     script_name |-> d.script_name, script_param |-> d.script_param]]
    IN  IF "king" \notin DOMAIN made \/ "queen" \notin DOMAIN made
        THEN init_default_piece_types ELSE made

\* "for entry in cfg.get('board', [])": a type name the registry lacks is made
\* queen-like, and every piece is built anew by Piece(color, tname, symbol); of
\* two entries for one square the later one stays.
ImportBoard(g, entries) ==
    LET names == {entries[i].type : i \in 1 .. Len(entries)}
        last(sq) == Max0({i \in 1 .. Len(entries) :
                             entries[i].x = sq[1] /\ entries[i].y = sq[2]})
    IN  [g EXCEPT
           !.piece_types = [n \in DOMAIN g.piece_types \cup names |->
                               IF n \in DOMAIN g.piece_types THEN g.piece_types[n]
                               ELSE QueenLike(g, n)],
           !.board = [sq \in DOMAIN g.board |->
                         IF last(sq) = 0 THEN None
                         ELSE Some(Piece(entries[last(sq)].color, entries[last(sq)].type,
                                         entries[last(sq)].symbol))]]

import_config(g, cfg) ==
    LET nc == Clamp(MinBoardDim, MaxBoardDim, cfg.cols)
        nr == Clamp(MinBoardDim, MaxBoardDim, cfg.rows)
        g1 == [g EXCEPT !.cols = nc, !.rows = nr, !.turn = cfg.turn,
                        !.fullmove = cfg.fullmove, !.game_over = FALSE,
                        !.result_text = "", !.last_move = None,
                        !.selected_square = None, !.elapsed_s = 0,
                        !.rules = [k \in DOMAIN init_default_rules |->
                                      IF k \in DOMAIN cfg.rules THEN cfg.rules[k]
                                      ELSE init_default_rules[k]],
                        !.chunks = ImportChunks(<<>>, cfg.chunks, 1),
                        !.edge_triggers = ImportTriggers(cfg.edge_triggers),
                        !.piece_types = ImportPieceTypes(cfg.piece_types),
                        !.board = EmptyBoard(nc, nr)]
        g2 == ImportBoard(g1, cfg.board)
    IN  [g2 EXCEPT !.damaged = {d \in cfg.damaged : in_bounds(g2, d[1], d[2])}]

\* The dimensions import_config falls back to when int() rejects cols or rows.
DefaultBoardDim == 8

\* The values of a configuration file that are not of the expected type: cols or
\* rows, fullmove, a rectangle component of the first chunk and the distance of
\* the first chunk trigger are strings that int() rejects, the piece-type
\* section is a list.
ImportFaults == {"cols", "fullmove", "chunk_rect", "trigger_dist", "piece_types"}

\* The position of the first trigger whose mode is not random, 0 when none is.
FirstChunkTrigger(trigs) ==
    IF \E i \in DOMAIN trigs : trigs[i].mode # "random"
    THEN CHOOSE i \in DOMAIN trigs :
            /\ trigs[i].mode # "random"
            /\ \A j \in 1 .. i - 1 : trigs[j].mode = "random"
    ELSE 0

\* import_config on the parsed file cfg whose values named in invalid are not of
\* the expected type.  int() on cols and rows is guarded by try/except; the
\* other conversions are not, and the exception leaves import_config with the
\* assignments made so far.
import_config_of_file(g, cfg, invalid) ==
    LET nc == IF "cols" \in invalid THEN DefaultBoardDim
              ELSE Clamp(MinBoardDim, MaxBoardDim, cfg.cols)
        nr == IF "cols" \in invalid THEN DefaultBoardDim
              ELSE Clamp(MinBoardDim, MaxBoardDim, cfg.rows)
        s1 == [g EXCEPT !.cols = nc, !.rows = nr, !.turn = cfg.turn]
        s2 == [s1 EXCEPT !.fullmove = cfg.fullmove, !.game_over = FALSE,
                         !.result_text = "", !.last_move = None,
                         !.selected_square = None, !.elapsed_s = 0,
                         !.rules = [k \in DOMAIN init_default_rules |->
                                       IF k \in DOMAIN cfg.rules THEN cfg.rules[k]
                                       ELSE init_default_rules[k]],
                         !.chunks = <<>>]
        s3 == [s2 EXCEPT !.chunks = ImportChunks(<<>>, cfg.chunks, 1)]
        bad == FirstChunkTrigger(cfg.edge_triggers)
        s4 == [s3 EXCEPT !.edge_triggers =
                            ImportTriggers(SubSeq(cfg.edge_triggers, 1, bad - 1))]
        s5 == [s3 EXCEPT !.edge_triggers = ImportTriggers(cfg.edge_triggers),
                         !.piece_types = [n \in {} |-> init_default_piece_types["king"]]]
    IN  IF "fullmove" \in invalid THEN [s1 EXCEPT !.exc = "ValueError"]
        ELSE IF "chunk_rect" \in invalid /\ cfg.chunks # <<>>
        THEN [s2 EXCEPT !.exc = "ValueError"]
        ELSE IF "trigger_dist" \in invalid /\ bad # 0 THEN [s4 EXCEPT !.exc = "ValueError"]
        ELSE IF "piece_types" \in invalid THEN [s5 EXCEPT !.exc = "AttributeError"]
        ELSE import_config(g, [cfg EXCEPT !.cols = nc, !.rows = nr])

\* save_config_to_file: the document is written (or the error reported); the
\* engine is left as it was.
save_config_to_file(g, name_ok) == g

\* load_config_from_file on a file: file.named, file.exists and file.parses tell
\* whether the name is usable, the file is there and json.load accepts it.  An
\* exception of import_config is caught and reported as a load error.  msg is
\* the line added to the console.
load_config_from_file(g, file) ==
    IF ~file.named THEN [g |-> g, msg |-> "load: missing name"]
    ELSE IF ~file.exists THEN [g |-> g, msg |-> "load: file not found"]
    ELSE IF ~file.parses THEN [g |-> g, msg |-> "load error"]
    ELSE IF import_config_of_file(g, file.cfg, file.invalid).exc # "none"
    THEN [g |-> [import_config_of_file(g, file.cfg, file.invalid) EXCEPT !.exc = "none"],
          msg |-> "load error"]
    ELSE [g |-> import_config_of_file(g, file.cfg, file.invalid), msg |-> "Loaded config"]

(***************************************************************************)
(* Bounds of the model                                                     *)
(***************************************************************************)
\* Moves are explored while fewer than MaxPlies half-moves have been counted
\* by turn and fullmove.
MaxPlies == 2
\* The clock is followed for MaxElapsed seconds after it was last sampled.
MaxElapsed == 1
\* Moves are explored while fewer than MaxSpawned chunks were spawned at random.
MaxSpawned == 2
\* Moves are explored on boards of at most MaxSquares squares.
MaxSquares == 16

\* Under the script set-ups moves are explored while fewer than MaxScriptPlies
\* half-moves have been counted.
MaxScriptPlies == 5

Plies(g) == 2 * (g.fullmove - 1) + (IF g.turn = "black" THEN 1 ELSE 0)

MayMove(g) ==
    /\ Plies(g) < MaxPlies
    /\ g.rand_chunk_counter < MaxSpawned
    /\ g.cols * g.rows <= MaxSquares

(***************************************************************************)
(* Initial states: the engine as constructed (rules, piece types and the   *)
(* standard position), after one of the command scripts below.             *)
(***************************************************************************)
Constructed ==
    reset_game([cols |-> StdBoardDim, rows |-> StdBoardDim,
                board |-> EmptyBoard(StdBoardDim, StdBoardDim),
                piece_types |-> init_default_piece_types,
                rules |-> init_default_rules, turn |-> "white", fullmove |-> 1,
                last_move |-> None, game_over |-> FALSE, result_text |-> "",
                selected_square |-> None, damaged |-> {}, chunks |-> <<>>,
                edge_triggers |-> <<>>, rand_chunk_counter |-> 0, elapsed_s |-> 0,
                osc_out |-> <<>>, exc |-> "none"])

\* A 4x4 skirmish, rank 4 first:   .  bK .  .
\*                                 .  .  .  .
\*                                 wP .  bP .
\*                                 wR .  bN wK
Skirmish ==
    << <<"board", 4, 4>>,
       <<"add", "white", "rook", 0, 0>>, <<"add", "white", "king", 3, 0>>,
       <<"add", "white", "pawn", 0, 1>>, <<"add", "black", "knight", 2, 0>>,
       <<"add", "black", "pawn", 2, 1>>, <<"add", "black", "king", 1, 3>> >>

\* The rule, piece-type, chunk and trigger set-ups the skirmish is played under.
Options ==
    { <<>>,
      << <<"rule", "center_survives", FALSE>> >>,
      << <<"rule", "atomic_radius", 0>> >>,
      << <<"rule", "atomic_radius", 0>>, <<"rule", "center_survives", FALSE>> >>,
      << <<"rule", "center_damages", FALSE>> >>,
      << <<"rule", "capture", "normal">> >>,
      << <<"rule", "capture", "none">> >>,
      << <<"ptype", "rook", "explode", 2>> >>,
      << <<"ptype", "pawn", "immune", TRUE>>, <<"ptype", "king", "damaged_ok", TRUE>> >>,
      << <<"ptype", "rook", "immune", TRUE>>, <<"rule", "center_survives", FALSE>> >>,
      << <<"ptype", "rook", "script", <<"heat", 1>> >>,
         <<"ptype", "king", "script", <<"decay", 1>> >> >>,
      << <<"rule", "victory", "king">> >>,
      << <<"chunk", "define", "za", <<0, 0, 0, 1>> >>,
         <<"chunk", "script", "za", "leave", "charge", 1>>,
         <<"edge", "add", "rook", 0, "za">> >>,
      << <<"edge", "random", "king", 0, 1, 2, 1, 1>> >>,
      << <<"edge", "random", "rook", 0, 5, 5, 1, 1>> >> }

\* The set-ups the engine is driven under through its move API.
ApiOptions ==
    { <<>>,
      << <<"rule", "victory", "king">> >>,
      << <<"rule", "max_moves", 1>>, <<"rule", "limit_result", "black">> >>,
      << <<"rule", "max_time", 1>> >>,
      << <<"ptype", "rook", "script", <<"heat", 1>> >> >> }

\* Two pieces, one capture from the end of a side:  rook a1 against pawn b1,
\* and pawn a2 against rook a4.
RookTakesAll ==
    << <<"clear">>, <<"add", "white", "rook", 0, 0>>, <<"add", "black", "pawn", 1, 0>> >>
RookTakesLast ==
    << <<"clear">>, <<"add", "white", "pawn", 0, 1>>, <<"add", "black", "rook", 0, 3>> >>
\* Rook a1 and king d4 against king b1.
RookTakesKing ==
    << <<"clear">>, <<"add", "white", "rook", 0, 0>>, <<"add", "white", "king", 3, 3>>,
       <<"add", "black", "king", 1, 0>> >>

\* The set-ups the win conditions and the limits are exercised under.
WinOptions ==
    { <<>>,
      << <<"rule", "victory", "king">> >>,
      << <<"rule", "victory", "none">>, <<"rule", "max_moves", 1>> >>,
      RookTakesAll,
      RookTakesAll \o << <<"rule", "center_survives", FALSE>> >>,
      RookTakesAll \o << <<"rule", "victory", "none">> >>,
      RookTakesLast,
      RookTakesLast \o << <<"rule", "victory", "king">> >>,
      RookTakesKing \o << <<"rule", "victory", "king">> >>,
      << <<"rule", "victory", "king">>, <<"rule", "max_moves", 1>>,
         <<"rule", "limit_result", "white">> >>,
      << <<"rule", "max_moves", 1>>, <<"rule", "limit_result", "black">> >>,
      << <<"rule", "max_time", 1>> >>,
      << <<"rule", "max_time", 2>> >>,
      << <<"rule", "victory", "king">>, <<"rule", "max_time", 1>>,
         <<"rule", "limit_result", "white">> >>,
      << <<"rule", "victory", "king">>,
         <<"chunk", "define", "zk", <<1, 3, 1, 3>> >>,
         <<"edge", "add", "pawn", 0, "zk">> >> }

\* The chunk za over a1-b2, its corners given high first.
ZoneA == <<"chunk", "define", "za", <<1, 1, 0, 0>> >>
\* The chunk za over a1-a2.
FileA == <<"chunk", "define", "za", <<0, 0, 0, 1>> >>

\* The chunk, script and trigger set-ups of the skirmish.
ChunkOptions ==
    { << FileA, <<"chunk", "script", "za", "leave", "charge", 1>>,
         <<"edge", "add", "rook", 0, "za">> >>,
      << ZoneA, <<"chunk", "owner", "za", "black">>,
         <<"chunk", "script", "za", "leave", "heat", 1>>,
         <<"edge", "add", "any", 0, "za">> >>,
      << ZoneA, <<"chunk", "owner", "za", "white">>,
         <<"chunk", "script", "za", "leave", "heat", 1>>,
         <<"edge", "add", "king", 1, "za">> >>,
      << <<"chunk", "define", "za", <<2, 2, 5, 5>> >>,
         <<"chunk", "script", "za", "enter", "charge", 2>>,
         <<"chunk", "script", "za", "leave", "none", 0>>,
         <<"chunk", "define", "zb", <<1, 2, 3, 3>> >>,
         <<"chunk", "script", "zb", "enter", "none", 0>>,
         <<"edge", "add", "pawn", 0, "za">> >>,
      << <<"chunk", "define", "zb", <<2, 2, 3, 3>> >>,
         <<"chunk", "script", "zb", "enter", "none", 0>>,
         <<"chunk", "define", "za", <<2, 2, 5, 5>> >>,
         <<"chunk", "script", "za", "enter", "charge", 2>> >>,
      << FileA, <<"edge", "add", "any", 0, "za">>, <<"edge", "add", "rook", 1, "za">> >>,
      << <<"chunk", "define", "za", <<3, 0, 3, 1>> >>,
         <<"edge", "random", "any", 0, 1, 1, 1, 1>>,
         <<"edge", "add", "any", 0, "za">> >>,
      << <<"edge", "random", "pawn", 1, 2, 3, 3, 3>> >>,
      << <<"board", 5, 3>>, <<"add", "white", "rook", 0, 0>>,
         <<"add", "white", "king", 2, 1>>, <<"add", "black", "king", 4, 2>>,
         <<"edge", "random", "king", 0, 2, 2, 2, 4>> >>,
      << <<"standard">>, <<"edge", "random", "any", 1, 2, 2, 2, 2>> >> }

\* The fill descriptors a configuration file gives the chunk za: none, white
\* pawns, and black pieces of a type the registry does not know.
ChunkFills ==
    { None, Some([color |-> "white", type |-> "pawn"]),
      Some([color |-> "black", type |-> "zed"]) }

\* A configuration file: the skirmish with the chunk za over a3-b4 switched off,
\* its empty squares damaged, and a trigger on it.
ChunkDoc(fill) ==
    LET doc == export_config(RunScript(Constructed, Skirmish \o
                   << <<"chunk", "define", "za", <<0, 2, 1, 3>> >>,
                      <<"edge", "add", "any", 0, "za">> >>))
    IN  [doc EXCEPT !.chunks[1].active = FALSE, !.chunks[1].fill = fill,
                    !.damaged = {<<0, 2>>, <<0, 3>>, <<1, 2>>}]

StartAs(g) ==
    /\ cols = g.cols /\ rows = g.rows /\ board = g.board
    /\ piece_types = g.piece_types /\ rules = g.rules /\ turn = g.turn
    /\ fullmove = g.fullmove /\ last_move = g.last_move
    /\ game_over = g.game_over /\ result_text = g.result_text
    /\ selected_square = g.selected_square /\ damaged = g.damaged
    /\ chunks = g.chunks /\ edge_triggers = g.edge_triggers
    /\ rand_chunk_counter = g.rand_chunk_counter /\ elapsed_s = g.elapsed_s
    /\ osc_out = g.osc_out /\ exc = g.exc

Init == \E opt \in Options : StartAs(RunScript(Constructed, Skirmish \o opt))

InitApi == \E opt \in ApiOptions : StartAs(RunScript(Constructed, Skirmish \o opt))

InitWin == \E opt \in WinOptions : StartAs(RunScript(Constructed, Skirmish \o opt))

InitChunk ==
    \/ \E opt \in ChunkOptions : StartAs(RunScript(Constructed, Skirmish \o opt))
    \/ \E fill \in ChunkFills : StartAs(import_config(Constructed, ChunkDoc(fill)))

(***************************************************************************)
(* Actions: one per handler.  A handler starts with no message sent, and   *)
(* none runs once an exception has left run().                             *)
(***************************************************************************)
Start == [G EXCEPT !.osc_out = <<>>]

Running == exc = "none"

\* The draws a move from from_sq can consume.
Coins(g, from_sq) ==
    IF g.board[from_sq] = None THEN {FALSE}
    ELSE IF g.board[from_sq][1].type_name \notin DOMAIN g.piece_types THEN {FALSE}
    ELSE IF resolve_script_descriptor(g.board[from_sq][1],
                g.piece_types[g.board[from_sq][1].type_name]).name
            \in {Some("stutter"), Some("jitter"), Some("entropy")}
    THEN BOOLEAN ELSE {FALSE}

Picks(g, from_sq, coin) ==
    IF coin /\ generate_moves_for_piece(g, from_sq[1], from_sq[2]) # <<>>
    THEN 1 .. Len(generate_moves_for_piece(g, from_sq[1], from_sq[2]))
    ELSE {1}

\* A left click on a square of the board.
HandleClick ==
    /\ Running
    /\ MayMove(G)
    /\ \E sq \in DOMAIN board :
         \E coin \in Coins(G, IF selected_square = None THEN sq ELSE selected_square[1]) :
         \E pick \in Picks(G, IF selected_square = None THEN sq ELSE selected_square[1],
                           coin) :
         \E draws \in Draws(G) :
            Becomes(handle_click(Start, sq, coin, pick, draws))

\* The engine's "attempt a move", called with a pair of squares.
TryMakeMove ==
    /\ Running
    /\ MayMove(G)
    /\ \E from_sq \in {sq \in DOMAIN board : board[sq] # None}, to_sq \in DOMAIN board :
         \E coin \in Coins(G, from_sq) : \E pick \in Picks(G, from_sq, coin) :
         \E draws \in Draws(G) :
            Becomes(try_make_move(Start, from_sq, to_sq, coin, pick, draws).g)

\* One turn of the main loop with no event: the clock may have advanced, and
\* check_limits_game_over runs.
Tick ==
    /\ Running
    /\ \E dt \in {0, 1} :
         /\ dt = 1 => (rules.max_seconds > 0 /\ elapsed_s < MaxElapsed)
         /\ Becomes(check_limits_game_over([Start EXCEPT !.elapsed_s = elapsed_s + dt]))

\* The commands that clear the game-over state.
ResetCommands == { <<"standard">>, <<"board", 4, 4>> }

\* The other commands entered during play.
EditCommands ==
    { <<"clear">>,
      <<"add", "black", "pawn", 3, 3>>,
      <<"rule", "damage_blocks", FALSE>>,
      <<"rule", "victory", "none">>,
      <<"chunk", "on", "za">> }

\* A line entered in the command console.
Command ==
    /\ Running
    /\ \E cmd \in ResetCommands \cup EditCommands :
         Becomes(process_dsl_command(Start, cmd))

\* The console commands that switch a chunk.
ChunkCommands ==
    { <<"chunk", "on", "za">>, <<"chunk", "off", "za">>, <<"chunk", "on", "zb">> }

\* "chunk on NAME" or "chunk off NAME" entered in the command console.
ChunkCommand ==
    /\ Running
    /\ \E cmd \in ChunkCommands : Becomes(process_dsl_command(Start, cmd))

\* save_config_to_file then load_config_from_file: the document written is the
\* document read.
SaveLoad ==
    /\ Running
    /\ Becomes(import_config(Start, export_config(Start)))

Next == HandleClick \/ Tick \/ Command \/ SaveLoad

Spec == Init /\ [][Next]_vars

NextApi == HandleClick \/ TryMakeMove \/ Tick \/ Command \/ SaveLoad

SpecApi == InitApi /\ [][NextApi]_vars

SpecWin == InitWin /\ [][Next]_vars

NextChunk == HandleClick \/ TryMakeMove \/ ChunkCommand

SpecChunk == InitChunk /\ [][NextChunk]_vars

\* Rook a1 and king d1 against king b4 on the 4x4 board.
Duel ==
    << <<"board", 4, 4>>, <<"add", "white", "rook", 0, 0>>,
       <<"add", "white", "king", 3, 0>>, <<"add", "black", "king", 1, 3>> >>

\* The duel with a chunk named like a spawned one, owned by black and with an
\* enter script, a trigger on it and a random trigger for 1x1 chunks.
NamedRand ==
    Duel \o << <<"chunk", "define", "rand_0", <<1, 1, 2, 2>> >>,
               <<"chunk", "owner", "rand_0", "black">>,
               <<"chunk", "script", "rand_0", "enter", "heat", 1>>,
               <<"edge", "add", "king", 0, "rand_0">>,
               <<"edge", "random", "rook", 0, 1, 1, 1, 1>> >>

\* The duel with a chunk that extends past the board.
PastBoard ==
    Duel \o << <<"chunk", "define", "zb", <<2, 2, 5, 5>> >>,
               <<"add", "black", "zed", 2, 2>> >>

DocOptions == { NamedRand, PastBoard }

\* The file written from the duel with the chunk rand_0.
DocRand == export_config(RunScript(Constructed, NamedRand))

\* A file for a 5x3 board: the registry has no queen, the bishop on c2 is of a
\* type the registry lacks, one entry and one damaged coordinate are off the
\* board, and the side to move is neither white nor black.
DocWide ==
    LET doc == export_config(RunScript(Constructed,
                   << <<"board", 5, 3>>, <<"add", "white", "rook", 0, 0>>,
                      <<"add", "white", "king", 2, 0>>, <<"add", "black", "zed", 2, 1>>,
                      <<"add", "black", "king", 4, 2>> >>))
    IN  [doc EXCEPT !.turn = "green",
                    !.piece_types = [n \in {"king", "rook"} |-> doc.piece_types[n]],
                    !.board = Append(doc.board, [x |-> 7, y |-> 1, color |-> "white",
                                                 type |-> "pawn", symbol |-> "P"]),
                    !.damaged = {<<1, 1>>, <<7, 7>>}]

\* The files a load can name.
Files ==
    { [named |-> n, exists |-> e, parses |-> p, cfg |-> DocRand, invalid |-> {}] :
         <<n, e, p>> \in {<<FALSE, TRUE, TRUE>>, <<TRUE, FALSE, TRUE>>,
                          <<TRUE, TRUE, FALSE>>} }
    \cup
    { [named |-> TRUE, exists |-> TRUE, parses |-> TRUE, cfg |-> d, invalid |-> f] :
         d \in {DocRand, DocWide}, f \in {{}} \cup {{x} : x \in ImportFaults} }

InitDoc ==
    \/ \E opt \in DocOptions : StartAs(RunScript(Constructed, opt))
    \/ StartAs(import_config(Constructed, DocRand))

\* Board and dimensions agree and the registry has the queen archetype: what
\* clicks and commands rely on.
Sound == DOMAIN board = Squares(cols, rows) /\ "queen" \in DOMAIN piece_types

\* A left click while the engine is sound.
DocClick == Sound /\ HandleClick

\* The console commands entered between loads.
DocCommands ==
    { <<"add", "white", "zed", 1, 1>>, <<"move", "zed", "knight">>,
      <<"board", 1, 30>>, <<"chunk", "off", "zb">>, <<"chunk", "on", "zb">>,
      <<"chunk", "fill", "zb", "white", "pawn">>,
      <<"add", "black", "rook", 0, 0>> }

DocCommand ==
    /\ Running /\ Sound
    /\ \E cmd \in DocCommands : Becomes(process_dsl_command(Start, cmd))

\* "load NAME" entered in the command console; loads are explored before the
\* first move of a game.
LoadFile ==
    /\ Running
    /\ Plies(G) = 0 /\ last_move = None
    /\ \E file \in Files : Becomes(load_config_from_file(Start, file).g)

\* "save NAME" entered in the command console.
SaveFile ==
    /\ Running
    /\ \E name_ok \in BOOLEAN : Becomes(save_config_to_file(Start, name_ok))

NextDoc == DocClick \/ DocCommand \/ LoadFile \/ SaveFile

SpecDoc == InitDoc /\ [][NextDoc]_vars

\* King a1 against king d4 and pawn b3 on the 4x4 board.
Kings ==
    << <<"board", 4, 4>>, <<"add", "white", "king", 0, 0>>,
       <<"add", "black", "king", 3, 3>>, <<"add", "black", "pawn", 1, 2>> >>

\* The scripts given to the king type; probabilities are in hundredths.  In the
\* last set-up the king has no maximal range.
ScriptOptions ==
    { << <<"ptype", "king", "script", <<"stutter", 50>> >> >>,
      << <<"ptype", "king", "script", <<"jitter", 50>> >> >>,
      << <<"ptype", "king", "script", <<"entropy", 50>> >> >>,
      << <<"ptype", "king", "script", <<"decay", 1>> >> >>,
      << <<"ptype", "king", "script", <<"decay", 2>> >> >>,
      << <<"ptype", "king", "script", <<"decay", 2>> >>, <<"rule", "capture", "normal">> >>,
      << <<"ptype", "king", "script", <<"charge", 1>> >> >>,
      << <<"ptype", "king", "script", <<"charge", 2>> >> >>,
      << <<"ptype", "king", "script", <<"charge", 2>> >>, <<"rule", "capture", "normal">> >>,
      << <<"ptype", "king", "range", 0>>, <<"ptype", "king", "script", <<"charge", 1>> >> >> }

InitScript == \E opt \in ScriptOptions : StartAs(RunScript(Constructed, Kings \o opt))

\* A move of the side to move, as the two clicks of handle_click pass it to
\* try_make_move.
ScriptMove ==
    /\ Running /\ ~game_over
    /\ Plies(G) < MaxScriptPlies
    /\ \E from_sq \in {sq \in DOMAIN board : board[sq] # None /\ board[sq][1].color = turn},
          to_sq \in DOMAIN board :
         \E coin \in Coins(G, from_sq) : \E pick \in Picks(G, from_sq, coin) :
         \E draws \in Draws(G) :
            Becomes(try_make_move(Start, from_sq, to_sq, coin, pick, draws).g)

NextScript == ScriptMove \/ SaveLoad

SpecScript == InitScript /\ [][NextScript]_vars

(***************************************************************************)
(* Properties                                                              *)
(***************************************************************************)
Occupied == {sq \in DOMAIN board : board[sq] # None}

MovesOf(sq) == Range(generate_moves_for_piece(G, sq[1], sq[2]))

TypeAt(sq) == piece_types[board[sq][1].type_name]

\* The step sent a /move message: try_make_move accepted a move.
AcceptedMove == osc_out' # <<>> /\ osc_out'[1].addr = "/move"

\* The number of /game_over messages the step sent.
GameOverEvents == Cardinality({i \in DOMAIN osc_out' : osc_out'[i].addr = "/game_over"})

\* The step clears the game-over state: "standard", a resize, or an import.
ResetStep ==
    \/ SaveLoad
    \/ \E cmd \in ResetCommands : Becomes(process_dsl_command(Start, cmd))

\* C1: in every reachable state, every destination generate_moves_for_piece
\* returns for an occupied square is in bounds, is not the origin, is empty or
\* holds a piece of the other colour, and is damaged only if the rule
\* damage_blocks_move is off or the piece's type has damaged_ok.
C1_DestinationsAreSound ==
    \A sq \in Occupied : \A d \in MovesOf(sq) :
        /\ in_bounds(G, d[1], d[2])
        /\ d # sq
        /\ board[d] = None \/ board[d][1].color # board[sq][1].color
        /\ d \in damaged => (~rules.damage_blocks_move \/ TypeAt(sq).damaged_ok)

\* After a capture that left its square empty and damaged, with the rule
\* damage_blocks_move switched off, a piece may move onto the damaged square.
C1_Witness ==
    /\ last_move # None /\ ~rules.damage_blocks_move
    /\ \E sq \in Occupied : \E d \in MovesOf(sq) : d \in damaged /\ board[d] = None

\* C2: for every accepted move the chunk enter/leave scripts are applied to the
\* mover against the chunks and activation flags as they are before the move's
\* edge triggers run, so a mover that stays on its destination ends with the
\* override those chunks give it.
C2_ChunkScriptsBeforeTriggers ==
    [][AcceptedMove =>
         LET f == last_move'[1][1]
             t == last_move'[1][2]
         IN  (exc' = "none" /\ board'[t] # None) =>
                board'[t][1].state.script_override =
                    ChunkLoop(chunks, board[f][1].state.script_override,
                              board[f][1].color, f, t, 1)]_vars

\* C3: every move that wrote the board runs to completion: no exception leaves
\* try_make_move after the board write.
C3_MovesRunToCompletion == [][AcceptedMove => exc' = "none"]_vars

\* C4: once the game is over, a click or a call of try_make_move leaves the
\* board, the damaged set, the turn and fullmove as they are.
C4_NoMoveAfterGameOver ==
    [][(game_over /\ (HandleClick \/ TryMakeMove)) =>
          /\ board' = board /\ damaged' = damaged
          /\ turn' = turn /\ fullmove' = fullmove]_vars

\* C5: a step sends at most one /game_over message, and only when it ends a game
\* that was not over; once the game is over, the flag and the result stay as
\* they are and no /game_over message is sent, until a step that clears the
\* game-over state (standard, a resize, an import).
C5_ResultIsFinal ==
    [][/\ GameOverEvents <= 1
       /\ GameOverEvents = 1 => (~game_over /\ game_over')
       /\ (game_over /\ ~ResetStep) =>
             (game_over' /\ result_text' = result_text /\ GameOverEvents = 0)]_vars

\* The game is over, a piece has moved since it ended, and the result stands.
C5_Witness ==
    /\ game_over /\ result_text = "0-1 (White royal lost)"
    /\ last_move # None /\ osc_out # <<>> /\ osc_out[1].addr = "/move"
    /\ Len(osc_out) = 1

\* C6: for every reachable state, the document exported after importing the
\* state's export (into the same engine or into a fresh one) equals the state's
\* export: dimensions, turn, fullmove, damaged squares as a set, piece types,
\* board occupancy, rules, chunks and edge triggers.
C6_ExportRoundTrip ==
    \A tgt \in {G, Constructed} :
        export_config(import_config(tgt, export_config(G))) = export_config(G)

\* A state that was imported: moves have been counted but none is remembered,
\* and squares are damaged, a chunk and a trigger are defined.
C6_Witness ==
    /\ last_move = None /\ Plies(G) >= 1
    /\ damaged # {} /\ chunks # <<>> /\ edge_triggers # <<>>
    /\ Occupied # {}

\* C7: saving and loading reproduces the state for play: every piece keeps its
\* script override and its counters.
C7_ImportKeepsPieceState == [][SaveLoad => board' = board]_vars

\* The radius C8 states for the piece on f: its type's explosion_radius if set,
\* else the global atomic_radius, plus the piece's heat_bonus.
StatedRadius(f) ==
    (IF TypeAt(f).explosion_radius # None THEN TypeAt(f).explosion_radius[1]
     ELSE rules.atomic_radius) + board[f][1].state.heat_bonus

Immune(cell) ==
    /\ cell # None
    /\ cell[1].type_name \in DOMAIN piece_types
    /\ piece_types[cell[1].type_name].immune_to_explosion

PiecesOf(b, color) ==
    Cardinality({sq \in DOMAIN b : b[sq] # None /\ b[sq][1].color = color})

RoyalsOf(b, pt, color) ==
    Cardinality({sq \in DOMAIN b :
                    /\ b[sq] # None /\ b[sq][1].color = color
                    /\ b[sq][1].type_name \in DOMAIN pt
                    /\ pt[b[sq][1].type_name].is_royal})

\* The result the victory mode gives for w white and b black counted pieces.
ResultOfCounts(w, b) ==
    IF w = 0 /\ b = 0 THEN Some("1/2-1/2")
    ELSE IF w = 0 THEN Some("0-1")
    ELSE IF b = 0 THEN Some("1-0")
    ELSE None

\* The victory result the mode gives on the board b, None when it gives none.
StatedVictory(mode, b, pt) ==
    IF mode = "king_capture"
    THEN ResultOfCounts(RoyalsOf(b, pt, "white"), RoyalsOf(b, pt, "black"))
    ELSE IF mode = "elimination"
    THEN ResultOfCounts(PiecesOf(b, "white"), PiecesOf(b, "black"))
    ELSE None

VictoryReasons ==
    {"NO_ROYALS", "WHITE_ROYAL_LOST", "BLACK_ROYAL_LOST",
     "MUTUAL_DESTRUCTION", "WHITE_ELIMINATED", "BLACK_ELIMINATED"}

\* The /game_over message of the step that ended the game.
Declared == osc_out'[Len(osc_out')]

\* C11: after every accepted move made with no result set, the result is the
\* one the victory mode gives on the board the move leaves behind (explosion,
\* post-move script, edge triggers and chunk scripts done): king_capture counts
\* the royal pieces, elimination all pieces, both colours at 0 is a draw, one
\* colour at 0 a win for the other; otherwise, and in mode none, no victory
\* result is declared.
C11_ResultFromFinalBoard ==
    [][(AcceptedMove /\ ~game_over /\ exc' = "none") =>
          LET v == StatedVictory(rules.victory, board', piece_types') IN
          /\ v # None => /\ game_over'
                         /\ Declared.addr = "/game_over"
                         /\ Declared.result = v[1]
                         /\ Declared.reason \in VictoryReasons
          /\ v = None => (game_over' => Declared.reason \notin VictoryReasons)]_vars

\* The pawn's move to the a-file fired the trigger that voided the chunk under
\* the black king: the royal count of the final board decides 1-0.
C11_Witness ==
    /\ game_over /\ result_text = "1-0 (Black royal lost)"
    /\ last_move # None /\ chunks # <<>> /\ ~chunks[1].active
    /\ board[<<1, 3>>] = None

\* The outcome the rule limit_result configures.
LimitOutcome ==
    IF rules.limit_result = "white" THEN "1-0"
    ELSE IF rules.limit_result = "black" THEN "0-1"
    ELSE "1/2-1/2"

\* C12: after every accepted move and every tick with no result set, if
\* max_fullmoves > 0 and fullmove > max_fullmoves, or max_seconds > 0 and the
\* elapsed time >= max_seconds, the game is over with the configured limit
\* outcome, in every victory mode, unless the move also gives a victory result,
\* which is then the one declared; with both limits 0 no limit ends the game.
C12_LimitsEndTheGame ==
    [][((AcceptedMove \/ Tick) /\ ~game_over /\ exc' = "none") =>
          LET limit == \/ rules.max_fullmoves > 0 /\ fullmove' > rules.max_fullmoves
                       \/ rules.max_seconds > 0 /\ elapsed_s' >= rules.max_seconds
              v == IF AcceptedMove
                   THEN StatedVictory(rules.victory, board', piece_types') ELSE None
          IN  /\ (limit /\ v = None) =>
                    /\ game_over'
                    /\ Declared.result = LimitOutcome
                    /\ Declared.reason \notin VictoryReasons
              /\ (limit /\ v # None) =>
                    /\ game_over'
                    /\ Declared.result = v[1]
                    /\ Declared.reason \in VictoryReasons
              /\ (rules.max_fullmoves = 0 /\ rules.max_seconds = 0) =>
                    (game_over' => Declared.reason \in VictoryReasons)]_vars

\* Black's pawn took the white king on the move that passed the move limit: the
\* victory result 0-1 stands, not the limit outcome 1-0.
C12_Witness ==
    /\ game_over /\ rules.max_fullmoves = 1 /\ fullmove = 2
    /\ rules.limit_result = "white"
    /\ result_text = "0-1 (White royal lost)"

\* C13: the win conditions are evaluated on every tick: when the victory
\* condition of the current mode holds on the board and no result is set, the
\* game is over after the tick.
C13_TickEvaluatesVictory ==
    [][(Tick /\ ~game_over /\ StatedVictory(rules.victory, board, piece_types) # None)
          => game_over']_vars

\* The squares of the board inside a rectangle given by two opposite corners.
CellsOf(rect) ==
    DOMAIN board \cap ((Min(rect[1], rect[3]) .. Max(rect[1], rect[3]))
                       \X (Min(rect[2], rect[4]) .. Max(rect[2], rect[4])))

\* The mover colours a toggle of the i-th chunk is not refused for: none (a
\* direct toggle), and the colours its ownership permits.
Permitted(i) ==
    {None} \cup {Some(c) : c \in {col \in {"white", "black"} :
                                    chunks[i].owner \in {"any", col}}}

\* C14: toggling an active chunk, directly or with a mover colour its ownership
\* permits, sets it inactive, leaves every cell of its rectangle empty and
\* damaged, and changes no cell outside the rectangle, no other chunk and no
\* piece type.
C14_ToggleOffVoids ==
    \A i \in DOMAIN chunks : chunks[i].active =>
        \A mc \in Permitted(i) :
            LET after == toggle_chunk(G, chunks[i].name, mc)
                cells == CellsOf(chunks[i].rect)
            IN  /\ after.chunks = [chunks EXCEPT ![i].active = FALSE]
                /\ DOMAIN after.board = DOMAIN board
                /\ \A sq \in cells : after.board[sq] = None /\ sq \in after.damaged
                /\ \A sq \in DOMAIN board \ cells :
                      /\ after.board[sq] = board[sq]
                      /\ sq \in after.damaged <=> sq \in damaged
                /\ after.piece_types = piece_types

\* The black knight took the pawn on a2 and fired the trigger on black's chunk
\* a1-b2: the chunk is off, its four squares are empty and damaged, knight and
\* rook included, and the rest of the board stands.
C14_Witness ==
    /\ last_move = Some(<< <<2, 0>>, <<0, 1>> >>)
    /\ chunks # <<>> /\ chunks[1].owner = "black" /\ ~chunks[1].active
    /\ chunks[1].rect = <<1, 1, 0, 0>>
    /\ {<<0, 0>>, <<1, 0>>, <<0, 1>>, <<1, 1>>} \subseteq damaged
    /\ \A sq \in {<<0, 0>>, <<1, 0>>, <<0, 1>>, <<1, 1>>} : board[sq] = None
    /\ board[<<3, 0>>] # None /\ board[<<1, 3>>] # None

\* C15: toggling an inactive chunk, directly or with a permitted mover colour,
\* sets it active and undamages the cells of its rectangle; with a fill
\* descriptor every empty cell of the rectangle gets a new piece of the fill's
\* colour and type, a type the registry lacks being created queen-like; occupied
\* cells, cells outside the rectangle and the known piece types stay as they
\* are, and without a fill no piece and no type is created.
C15_ToggleOnFills ==
    \A i \in DOMAIN chunks : ~chunks[i].active =>
        \A mc \in Permitted(i) :
            LET after == toggle_chunk(G, chunks[i].name, mc)
                cells == CellsOf(chunks[i].rect)
                fill == chunks[i].fill
            IN  /\ after.chunks = [chunks EXCEPT ![i].active = TRUE]
                /\ after.damaged = damaged \ cells
                /\ \A sq \in DOMAIN board :
                      (sq \notin cells \/ board[sq] # None) => after.board[sq] = board[sq]
                /\ \A n \in DOMAIN piece_types :
                      n \in DOMAIN after.piece_types /\ after.piece_types[n] = piece_types[n]
                /\ fill = None =>
                      /\ after.board = board
                      /\ after.piece_types = piece_types
                /\ fill # None =>
                      /\ \A sq \in cells : board[sq] = None =>
                            /\ after.board[sq] # None
                            /\ after.board[sq][1].color = fill[1].color
                            /\ after.board[sq][1].type_name = fill[1].type
                            /\ after.board[sq][1].state = EmptyPieceState
                      /\ DOMAIN after.piece_types = DOMAIN piece_types \cup {fill[1].type}
                      /\ fill[1].type \notin DOMAIN piece_types =>
                            LET made == after.piece_types[fill[1].type]
                                queen == piece_types["queen"]
                            IN  /\ made.kind = queen.kind
                                /\ made.directions = queen.directions
                                /\ made.max_range = queen.max_range
                                /\ made.can_jump = queen.can_jump

\* The chunk a3-b4 was switched on with the fill "black zed": the type zed
\* exists and moves like the queen, the three empty squares hold new black
\* zeds, the black king on b4 stands where it stood, and no square of the chunk
\* is damaged.
C15_Witness ==
    /\ chunks # <<>> /\ chunks[1].active
    /\ chunks[1].fill = Some([color |-> "black", type |-> "zed"])
    /\ "zed" \in DOMAIN piece_types
    /\ piece_types["zed"].directions = piece_types["queen"].directions
    /\ \A sq \in {<<0, 2>>, <<0, 3>>, <<1, 2>>} :
          /\ board[sq] # None /\ board[sq][1].type_name = "zed"
          /\ board[sq][1].color = "black"
    /\ board[<<1, 3>>] # None /\ board[<<1, 3>>][1].type_name = "king"
    /\ damaged \cap CellsOf(chunks[1].rect) = {}

\* C16: a toggle of a chunk owned by White or Black with a mover of the other
\* colour changes neither the chunk's active flag nor the board nor the damaged
\* set, and a toggle of the same chunk with no mover colour flips its flag.
C16_OwnershipRefuses ==
    \A i \in DOMAIN chunks : chunks[i].owner \in {"white", "black"} =>
        /\ \A c \in {"white", "black"} \ {chunks[i].owner} :
              LET after == toggle_chunk(G, chunks[i].name, Some(c)) IN
              /\ after.chunks = chunks
              /\ after.board = board
              /\ after.damaged = damaged
        /\ toggle_chunk(G, chunks[i].name, None).chunks[i].active = ~chunks[i].active

\* The white rook went a1-c1 under a trigger (any piece, distance 0) on black's
\* chunk a1-b2: the chunk is still on, the pawn on a2 stands, a2 is not damaged.
C16_Witness ==
    /\ last_move = Some(<< <<0, 0>>, <<2, 0>> >>)
    /\ chunks # <<>> /\ chunks[1].owner = "black" /\ chunks[1].active
    /\ edge_triggers # <<>> /\ edge_triggers[1].type = "any"
    /\ edge_triggers[1].chunk = chunks[1].name
    /\ board[<<2, 0>>] # None /\ board[<<2, 0>>][1].color = "white"
    /\ board[<<0, 1>>] # None /\ <<0, 1>> \notin damaged

\* The origin, the destination and the mover of the move the step accepted.
MoveFrom == last_move'[1][1]
MoveTo == last_move'[1][2]
Mover == board[MoveFrom][1]

\* The piece on the destination after the step is of the mover's colour and type.
MoverStays ==
    /\ board'[MoveTo] # None
    /\ board'[MoveTo][1].color = Mover.color
    /\ board'[MoveTo][1].type_name = Mover.type_name

\* The i-th chunk, as it is after the step, is entered resp. left by the move.
Entered(i) ==
    MoveTo \in CellsOf(chunks'[i].rect) /\ MoveFrom \notin CellsOf(chunks'[i].rect)
Left(i) ==
    MoveFrom \in CellsOf(chunks'[i].rect) /\ MoveTo \notin CellsOf(chunks'[i].rect)

\* The chunks whose script the move applies to the mover: active, owned by any
\* or by the mover's colour, entered with an enter script or left with a leave
\* script.
Applying ==
    {i \in DOMAIN chunks' :
        /\ chunks'[i].active
        /\ chunks'[i].owner \in {"any", Mover.color}
        /\ \/ Entered(i) /\ chunks'[i].enter_script # None
           \/ Left(i) /\ chunks'[i].leave_script # None}

\* The script of the last applying chunk, in the order the chunks were defined.
LastScript ==
    IF Entered(Max0(Applying)) THEN chunks'[Max0(Applying)].enter_script[1]
    ELSE chunks'[Max0(Applying)].leave_script[1]

\* C17: after an accepted move whose mover stays on the destination, the
\* mover's override is the enter script of the active chunk it entered, or the
\* leave script of the active chunk it left (name and parameter, whatever the
\* override was before; no override at all if that script is "none"), the last
\* such chunk deciding when several apply; chunks that are inactive or owned by
\* the other colour change nothing, and with no applying chunk the override is
\* the one the piece had.
C17_ChunkScriptsOverride ==
    [][(AcceptedMove /\ exc' = "none" /\ MoverStays) =>
          board'[MoveTo][1].state.script_override =
              IF Applying = {} THEN Mover.state.script_override
              ELSE IF LastScript.name = "none" THEN None
              ELSE Some([name |-> LastScript.name, param |-> LastScript.param])]_vars

\* The knight went c1-d3 into the chunks zb (enter script none) and za (enter
\* script charge 2), defined in this order: its override is charge 2.
C17_Witness ==
    /\ last_move = Some(<< <<2, 0>>, <<3, 2>> >>)
    /\ Len(chunks) = 2 /\ chunks[1].name = "zb" /\ chunks[2].name = "za"
    /\ board[<<3, 2>>] # None /\ board[<<3, 2>>][1].type_name = "knight"
    /\ board[<<3, 2>>][1].state.script_override = Some([name |-> "charge", param |-> 2])

\* The k-th trigger fires for the move: its type filter admits the mover and
\* its threshold reaches the destination's distance to the nearest edge.
Fires(k) ==
    /\ edge_triggers[k].type \in {"any", Mover.type_name}
    /\ edge_triggers[k].dist >=
          Min(Min(MoveTo[1], cols - 1 - MoveTo[1]), Min(MoveTo[2], rows - 1 - MoveTo[2]))

\* The firing triggers that spawn, and those that toggle the i-th chunk with a
\* mover colour its ownership permits.
Spawning == {k \in DOMAIN edge_triggers : Fires(k) /\ edge_triggers[k].mode = "random"}
Toggling(i) ==
    {k \in DOMAIN edge_triggers :
        /\ Fires(k) /\ edge_triggers[k].mode # "random"
        /\ edge_triggers[k].chunk = chunks[i].name
        /\ chunks[i].owner \in {"any", Mover.color}}

\* A board with the script overrides left out.
Unscripted(b) ==
    [sq \in DOMAIN b |->
        IF b[sq] = None THEN None
        ELSE Some([b[sq][1] EXCEPT !.state.script_override = None])]

\* C18: after an accepted move every registered trigger has been processed
\* once: each firing random trigger spawned one chunk, each chunk was toggled
\* once per firing trigger that targets it (its flag is flipped iff their number
\* is odd), and when no trigger toggles a chunk the old chunks, the damaged set
\* and the pieces are as the capture and the post-move script left them.
C18_TriggersFireOnce ==
    [][(AcceptedMove /\ exc' = "none") =>
          /\ edge_triggers' = edge_triggers
          /\ rand_chunk_counter' = rand_chunk_counter + Cardinality(Spawning)
          /\ Len(chunks') = Len(chunks) + Cardinality(Spawning)
          /\ \A i \in DOMAIN chunks :
                chunks'[i] = [chunks[i] EXCEPT !.active =
                                 IF Cardinality(Toggling(i)) % 2 = 1 THEN ~@ ELSE @]
          /\ (\A i \in DOMAIN chunks : Toggling(i) = {}) =>
                LET g == PostMove(G, MoveAndCapture(G, MoveFrom, MoveTo), MoveFrom, MoveTo)
                IN  /\ damaged' = g.damaged
                    /\ Unscripted(board') = Unscripted(g.board)]_vars

\* The rook went a1-b1 under two triggers on the chunk a1-a2 (any piece at
\* distance 0, rooks at distance 1): both fired, the chunk was switched off and
\* on again, so it is active, undamaged, and the pawn on a2 is gone.
C18_Witness ==
    /\ last_move = Some(<< <<0, 0>>, <<1, 0>> >>)
    /\ Len(edge_triggers) = 2 /\ edge_triggers[2].type = "rook"
    /\ chunks # <<>> /\ chunks[1].active /\ chunks[1].rect = <<0, 0, 0, 1>>
    /\ board[<<0, 1>>] = None /\ damaged = {}
    /\ board[<<1, 0>>] # None

\* The distance from pos to an edge of the board.
EdgeDist(pos, edge) ==
    CASE edge = "left" -> pos[1]
      [] edge = "right" -> cols - 1 - pos[1]
      [] edge = "bottom" -> pos[2]
      [] edge = "top" -> rows - 1 - pos[2]

MinEdgeDist(pos) ==
    Min(Min(pos[1], cols - 1 - pos[1]), Min(pos[2], rows - 1 - pos[2]))

\* The edge random.choice returns for the draw.
ChosenEdge(pos, draw) ==
    EdgeNames[nearest_edges(G, pos)[(draw.e % Len(nearest_edges(G, pos))) + 1]]

\* The rectangle of the chunk the trigger spawns for a piece on pos.
SpawnedRect(trig, pos, draw) ==
    LET after == spawn_random_chunk_near_edge(G, pos, trig, draw) IN
    after.chunks[ChunkIdx(after.chunks, "rand_" \o ToString(rand_chunk_counter))].rect

\* The random triggers, positions and draws for which a chunk is spawned.
SpawnCases ==
    {c \in [k : DOMAIN edge_triggers, pos : DOMAIN board,
            draw : UNION {DrawsOf(G, edge_triggers[k]) : k \in DOMAIN edge_triggers}] :
        /\ edge_triggers[c.k].mode = "random"
        /\ c.draw \in DrawsOf(G, edge_triggers[c.k])
        /\ MinEdgeDist(c.pos) <= edge_triggers[c.k].dist
        /\ spawn_random_chunk_near_edge(G, c.pos, edge_triggers[c.k], c.draw).exc = "none"}

\* C19: the chunk a random trigger spawns for a piece on pos has a normalized
\* rectangle inside the board that touches the chosen edge, which is one of the
\* edges nearest to pos, and spans pos on the other axis; it is registered
\* active, owned by any, with no fill and no scripts, and the spawn changes
\* neither the board nor the damaged set nor another chunk.
C19_SpawnedChunkOnBoard ==
    \A c \in SpawnCases :
        LET trig == edge_triggers[c.k]
            after == spawn_random_chunk_near_edge(G, c.pos, trig, c.draw)
            name == "rand_" \o ToString(rand_chunk_counter)
            r == SpawnedRect(trig, c.pos, c.draw)
            edge == ChosenEdge(c.pos, c.draw)
        IN  /\ r[1] <= r[3] /\ r[2] <= r[4]
            /\ 0 <= r[1] /\ r[3] <= cols - 1 /\ 0 <= r[2] /\ r[4] <= rows - 1
            /\ EdgeDist(c.pos, edge) = MinEdgeDist(c.pos)
            /\ edge = "left" => r[1] = 0
            /\ edge = "right" => r[3] = cols - 1
            /\ edge = "bottom" => r[2] = 0
            /\ edge = "top" => r[4] = rows - 1
            /\ edge \in {"left", "right"} => (r[2] <= c.pos[2] /\ c.pos[2] <= r[4])
            /\ edge \in {"bottom", "top"} => (r[1] <= c.pos[1] /\ c.pos[1] <= r[3])
            /\ after.chunks = Append(chunks, [name |-> name, rect |-> r, fill |-> None,
                                              active |-> TRUE, owner |-> "any",
                                              enter_script |-> None,
                                              leave_script |-> None])
            /\ after.board = board /\ after.damaged = damaged

\* On the 5x3 board the king went c2-c1 and a 2x3 chunk was spawned on the
\* bottom edge over b1-c3: it is active and the board holds its three pieces.
C19_Witness ==
    /\ cols = 5 /\ rows = 3
    /\ last_move = Some(<< <<2, 1>>, <<2, 0>> >>)
    /\ chunks = << Chunk("rand_0", <<1, 0, 2, 2>>) >>
    /\ rand_chunk_counter = 1 /\ damaged = {}
    /\ Cardinality({sq \in DOMAIN board : board[sq] # None}) = 3

\* C20: the rectangle of a spawned chunk has exactly the picked width and
\* height, for every position that fires the trigger; with all four size limits
\* 2 on the 8x8 board and the piece on the a-file the chunk is 2x2 on the left
\* edge.
C20_SpawnedSizeIsPicked ==
    \A c \in SpawnCases :
        LET trig == edge_triggers[c.k]
            r == SpawnedRect(trig, c.pos, c.draw)
        IN  /\ Max(1, trig.minw) <= c.draw.w /\ c.draw.w <= Min(trig.maxw, cols)
            /\ Max(1, trig.minh) <= c.draw.h /\ c.draw.h <= Min(trig.maxh, rows)
            /\ r[3] - r[1] + 1 = c.draw.w
            /\ r[4] - r[2] + 1 = c.draw.h
            /\ (cols = 8 /\ rows = 8 /\ c.pos[1] = 0 /\ c.draw.w = 2 /\ c.draw.h = 2)
                  => r[1] = 0

\* C21: the name generated for a spawned chunk is the name of no registered
\* chunk, so the spawn adds one chunk and leaves every registered chunk as it
\* was, for every random trigger, position and draw that spawns.
C21_SpawnedNameIsFresh ==
    \A c \in SpawnCases :
        LET after == spawn_random_chunk_near_edge(G, c.pos, edge_triggers[c.k], c.draw)
        IN  /\ ChunkIdx(chunks, "rand_" \o ToString(rand_chunk_counter)) = 0
            /\ Len(after.chunks) = Len(chunks) + 1
            /\ \A i \in DOMAIN chunks : after.chunks[i] = chunks[i]

\* The script in effect for the piece on sq: its override, else its type's.
ScriptAt(sq) ==
    resolve_script_descriptor(board[sq][1], piece_types[board[sq][1].type_name])

\* The attempts the stutter script cancels: a piece under stutter, one of its
\* legal destinations and a draw below the probability.
Cancelled ==
    {a \in [from_sq : DOMAIN board, to_sq : DOMAIN board, coin : BOOLEAN] :
        /\ board[a.from_sq] # None
        /\ board[a.from_sq][1].type_name \in DOMAIN piece_types
        /\ a.to_sq \in Range(generate_moves_for_piece(G, a.from_sq[1], a.from_sq[2]))
        /\ ScriptAt(a.from_sq).name = Some("stutter")
        /\ Chance(ClampProb(ScriptAt(a.from_sq).param), a.coin)}

\* C22: a move attempt cancelled by the stutter script returns False and leaves
\* the whole engine state as it was, and no message is sent.
C22_StutterCancelKeepsState ==
    \A a \in Cancelled : \A draws \in Draws(G) :
        try_make_move(Start, a.from_sq, a.to_sq, a.coin, 1, draws)
            = [g |-> Start, moved |-> FALSE]

\* Both kings have moved under stutter 50 and the white king, on b1, is to move
\* again: each of its attempts may be cancelled.
C22_Witness ==
    /\ piece_types["king"].script_name = Some("stutter")
    /\ turn = "white" /\ fullmove = 2 /\ last_move # None
    /\ board[<<1, 0>>] # None /\ board[<<1, 0>>][1].type_name = "king"
    /\ \E a \in Cancelled : a.from_sq = <<1, 0>>

\* C23: the square an accepted move ends on is a member of the legal-move set
\* computed for the piece on the origin in the state before the move, also
\* when jitter or entropy redirected it.
C23_DestinationIsLegal ==
    [][AcceptedMove =>
          /\ board[last_move'[1][1]] # None
          /\ last_move'[1][2] \in
                Range(generate_moves_for_piece(G, last_move'[1][1][1],
                                               last_move'[1][1][2]))]_vars

\* Under entropy 50 the white king has made two moves, each to the chosen
\* square or to the legal square the redirect picked: it stands on b2 with
\* entropy level 2.
C23_Witness ==
    /\ piece_types["king"].script_name = Some("entropy")
    /\ board[<<1, 1>>] # None /\ board[<<1, 1>>][1].color = "white"
    /\ board[<<1, 1>>][1].state.entropy_level = 2
    /\ last_move # None /\ last_move[1][2] = <<1, 1>>

\* Every piece under decay N has no decay_left yet or one within 1 .. N-1.
DecayInRange ==
    \A sq \in DOMAIN board :
        (board[sq] # None /\ ScriptAt(sq).name = Some("decay")) =>
            \/ board[sq][1].state.decay_left = None
            \/ board[sq][1].state.decay_left[1] \in 1 .. ScriptAt(sq).param - 1

\* What a completed move leaves of the mover's decay_left, N when it had none.
DecayLeft ==
    (IF Mover.state.decay_left # None THEN Mover.state.decay_left[1]
     ELSE ScriptAt(MoveFrom).param) - 1

\* C24: every completed move of a piece under decay N lowers its decay_left by
\* one, from N at its first move; while the result is positive the piece stays
\* on its destination with that value unless the capture destroyed it, and when
\* the result is 0, at its Nth move, the destination is empty after the move.
\* decay_left stays within 1 .. N-1, so the Nth move is the one that removes.
C24_DecayCountsDown ==
    [][/\ DecayInRange'
       /\ (AcceptedMove /\ exc' = "none" /\ ScriptAt(MoveFrom).name = Some("decay")
           /\ ScriptAt(MoveFrom).param >= 1) =>
             /\ DecayLeft <= 0 => board'[MoveTo] = None
             /\ DecayLeft >= 1 =>
                   \/ /\ MoverStays
                      /\ board'[MoveTo][1].state.decay_left = Some(DecayLeft)
                   \/ board[MoveTo] # None /\ board'[MoveTo] = None]_vars

\* Under decay 2 the white king has completed its second move and is gone: the
\* destination is empty, no white piece is left, and the black king, which has
\* moved once, has one move left.
C24_Witness ==
    /\ piece_types["king"].script_name = Some("decay")
    /\ piece_types["king"].script_param = 2
    /\ last_move # None /\ board[last_move[1][2]] = None
    /\ turn = "black" /\ fullmove = 2
    /\ \A sq \in DOMAIN board : board[sq] # None => board[sq][1].color = "black"
    /\ \E sq \in DOMAIN board :
          /\ board[sq] # None /\ board[sq][1].type_name = "king"
          /\ board[sq][1].state.decay_left = Some(1)
    /\ \E sq \in DOMAIN board : board[sq] # None /\ board[sq][1].type_name = "pawn"

\* Every piece under charge T has a charge_count within 0 .. T-1.
ChargeInRange ==
    \A sq \in DOMAIN board :
        (board[sq] # None /\ ScriptAt(sq).name = Some("charge")) =>
            board[sq][1].state.charge_count \in 0 .. ScriptAt(sq).param - 1

\* The pieces of a limited-range slider type: directions, a maximal range, no
\* jump, neither pawn nor knight.
LimitedSliders ==
    {sq \in DOMAIN board :
        /\ board[sq] # None
        /\ TypeAt(sq).kind \notin {"pawn", "knight"}
        /\ TypeAt(sq).directions # <<>> /\ ~TypeAt(sq).can_jump
        /\ TypeAt(sq).max_range # None}

\* The square k steps from sq in direction d is reached: the squares up to it
\* are on the board and not blocked by damage, those before it are empty, and
\* it is empty or holds a piece of the other colour.
Reached(sq, d, k) ==
    /\ \A j \in 1 .. k :
          /\ in_bounds(G, sq[1] + j * d[1], sq[2] + j * d[2])
          /\ ~square_blocked_by_damage(G, sq[1] + j * d[1], sq[2] + j * d[2], TypeAt(sq))
    /\ \A j \in 1 .. k - 1 : board[<<sq[1] + j * d[1], sq[2] + j * d[2]>>] = None
    /\ \/ board[<<sq[1] + k * d[1], sq[2] + k * d[2]>>] = None
       \/ board[<<sq[1] + k * d[1], sq[2] + k * d[2]>>][1].color # board[sq][1].color

\* The legal moves of every limited-range slider are the squares reached within
\* its type's range plus its range bonus.
ReachIsRangePlusBonus ==
    \A sq \in LimitedSliders :
        MovesOf(sq) =
            {<<sq[1] + k * d[1], sq[2] + k * d[2]>> :
                <<d, k>> \in {dk \in Range(TypeAt(sq).directions)
                                      \X (1 .. TypeAt(sq).max_range[1]
                                                 + board[sq][1].state.range_bonus) :
                                 Reached(sq, dk[1], dk[2])}}

\* The moves try_make_move accepts for a piece under charge T of the side to
\* move: the origin and one of its legal destinations.
ChargeMoves ==
    {m \in [from_sq : DOMAIN board, to_sq : DOMAIN board] :
        /\ board[m.from_sq] # None /\ board[m.from_sq][1].color = turn
        /\ board[m.from_sq][1].type_name \in DOMAIN piece_types
        /\ ScriptAt(m.from_sq).name = Some("charge")
        /\ ScriptAt(m.from_sq).param >= 1
        /\ m.to_sq \in MovesOf(m.from_sq)}

\* C25: a completed move of a piece under charge T that stays on its
\* destination raises charge_count by one, and when that reaches T the count is
\* reset to 0 and range_bonus grows by exactly 1, otherwise range_bonus is
\* kept; charge_count stays within 0 .. T-1, so the bonus grows on every T-th
\* move and no other; and a limited-range slider reaches exactly its type's
\* range plus its bonus, one square more per increase.
C25_ChargeExtendsReach ==
    /\ ChargeInRange /\ ReachIsRangePlusBonus
    /\ \A m \in ChargeMoves : \A draws \in Draws(G) :
          LET r == try_make_move(Start, m.from_sq, m.to_sq, FALSE, 1, draws)
              before == board[m.from_sq][1]
          IN  /\ r.moved
              /\ (r.g.exc = "none" /\ r.g.board[m.to_sq] # None) =>
                    LET after == r.g.board[m.to_sq][1] IN
                    /\ after.color = before.color /\ after.type_name = before.type_name
                    /\ IF before.state.charge_count + 1 >= ScriptAt(m.from_sq).param
                       THEN after.state.charge_count = 0
                            /\ after.state.range_bonus = before.state.range_bonus + 1
                       ELSE after.state.charge_count = before.state.charge_count + 1
                            /\ after.state.range_bonus = before.state.range_bonus

\* Under charge 2 the white king has completed three moves: its bonus is 1, its
\* count is 1 again, and it reaches a square two steps away.
C25_Witness ==
    /\ piece_types["king"].script_name = Some("charge")
    /\ piece_types["king"].script_param = 2
    /\ \E sq \in LimitedSliders :
          /\ board[sq][1].color = "white"
          /\ board[sq][1].state.range_bonus = 1
          /\ board[sq][1].state.charge_count = 1
          /\ \E to_sq \in MovesOf(sq) : Chebyshev(sq, to_sq) = 2

\* The files that are found and parsed, so that import_config runs on them.
Parsed == {file \in Files : file.named /\ file.exists /\ file.parses}

\* C26: import_config runs to completion on every parsed file, whatever values
\* of it are of the wrong type, and the state it yields is fully defined: the
\* side to move is white or black, a non-numeric fullmove is replaced by 1,
\* non-numeric dimensions by 8x8, and the board has the new dimensions.
C26_ImportRunsToCompletion ==
    \A file \in Parsed :
        LET after == import_config_of_file(G, file.cfg, file.invalid)
        IN  /\ after.exc = "none"
            /\ after.turn \in {"white", "black"}
            /\ "fullmove" \in file.invalid => after.fullmove = 1
            /\ "cols" \in file.invalid =>
                  (after.cols = DefaultBoardDim /\ after.rows = DefaultBoardDim)
            /\ DOMAIN after.board = Squares(after.cols, after.rows)

\* The engine state but for the messages of the last handler.
Engine(g) == [g EXCEPT !.osc_out = <<>>]

\* C27: a load that does not report "Loaded config" leaves the engine state as
\* it was, and so does every save.
C27_FailedLoadKeepsState ==
    /\ \A file \in Files :
          load_config_from_file(G, file).msg # "Loaded config"
             => Engine(load_config_from_file(G, file).g) = Engine(G)
    /\ \A name_ok \in BOOLEAN : Engine(save_config_to_file(G, name_ok)) = Engine(G)

\* C28: the type name of every piece on the board is a key of the piece-type
\* registry.
C28_TypesRegistered ==
    \A sq \in DOMAIN board :
        board[sq] # None => board[sq][1].type_name \in DOMAIN piece_types

\* C29: cols and rows are within 2..20, the board has exactly the squares of a
\* cols x rows grid, and every damaged coordinate is one of them.
C29_BoardInBounds ==
    /\ MinBoardDim <= cols /\ cols <= MaxBoardDim
    /\ MinBoardDim <= rows /\ rows <= MaxBoardDim
    /\ DOMAIN board = Squares(cols, rows)
    /\ damaged \subseteq Squares(cols, rows)

\* C30: the rectangle stored for every chunk is normalized, x1 <= x2 and
\* y1 <= y2, however the chunk was created.
C30_RectsNormalized ==
    \A i \in DOMAIN chunks :
        /\ chunks[i].rect[1] <= chunks[i].rect[3]
        /\ chunks[i].rect[2] <= chunks[i].rect[4]

\* The sizes given to "board W H": in range, below and above it.
ResizeArgs == {<<4, 4>>, <<5, 3>>, <<1, 30>>}

\* C31: after "board W H" the rules are the default rules, the board and the
\* damaged set are empty, white is to move in move 1 of a game that is not
\* over, and there are no chunks and no edge triggers.
C31_ResizeResetsRules ==
    \A wh \in ResizeArgs :
        LET after == process_dsl_command(Start, <<"board", wh[1], wh[2]>>)
        IN  /\ after.rules = init_default_rules
            /\ after.board = EmptyBoard(after.cols, after.rows)
            /\ after.damaged = {}
            /\ after.turn = "white" /\ after.fullmove = 1
            /\ ~after.game_over /\ after.result_text = ""
            /\ after.chunks = <<>> /\ after.edge_triggers = <<>>

\* The attempts that are no legal move: the origin is empty, or the destination
\* is not in the legal-move set of the piece on the origin.
Illegal ==
    {a \in [from_sq : DOMAIN board, to_sq : DOMAIN board] :
        board[a.from_sq] = None \/ a.to_sq \notin MovesOf(a.from_sq)}

\* The engine state but for the selection.
Unselected(g) == [g EXCEPT !.selected_square = None]

\* C32: an attempt that is no legal move is rejected: try_make_move returns
\* False and leaves the engine state as it was, no message is sent, and the
\* click that makes the attempt changes at most the selection.
C32_IllegalMoveRejected ==
    \A a \in Illegal : \A draws \in Draws(G) :
        /\ try_make_move(Start, a.from_sq, a.to_sq, FALSE, 1, draws)
              = [g |-> Start, moved |-> FALSE]
        /\ a.to_sq # a.from_sq =>
              Unselected(handle_click([Start EXCEPT !.selected_square = Some(a.from_sq)],
                                      a.to_sq, FALSE, 1, draws))
                 = Unselected(Start)

\* The rook on a1 was selected and the pawn on a2, no destination of the rook,
\* was clicked: nothing has moved and the pawn is selected.
C32_Witness ==
    /\ selected_square = Some(<<0, 1>>) /\ last_move = None
    /\ board[<<0, 0>>] # None /\ board[<<0, 0>>][1].type_name = "rook"
    /\ board[<<0, 1>>] # None /\ board[<<0, 1>>][1].color = turn
    /\ [from_sq |-> <<0, 0>>, to_sq |-> <<0, 1>>] \in Illegal
    /\ fullmove = 1 /\ turn = "white" /\ osc_out = <<>>

\* Command lines that the handlers reject: a token that is no integer, an odd
\* number of direction components, a colour or an owner that is none of the
\* accepted words, a phase that is neither enter nor leave, and a chunk, a base
\* or a type that is not defined ("nope" names nothing).
Rejected ==
    << <<"board", Some(4), None>>, <<"board", None, Some(4)>>,
       <<"add", "white", "zed", None, Some(1)>>,
       <<"add", "white", "zed", Some(1), None>>,
       <<"add", "green", "zed", Some(1), Some(1)>>,
       <<"move", "zed", "nope">>,
       <<"ptype", "nope", "royal", TRUE>>,
       <<"ptype", "king", "explode", None>>,
       <<"ptype", "king", "range", None>>,
       <<"ptype", "king", "dirs", <<Some(1), Some(0), Some(1)>> >>,
       <<"ptype", "king", "dirs", <<Some(1), None>> >>,
       <<"ptype", "king", "script", <<"decay", None>> >>,
       <<"chunk", "define", "za", <<Some(0), Some(0), None, Some(1)>> >>,
       <<"chunk", "on", "nope">>, <<"chunk", "off", "nope">>,
       <<"chunk", "fill", "nope", "white", "pawn">>,
       <<"chunk", "owner", "nope", "white">>,
       <<"chunk", "owner", "za", "green">>,
       <<"chunk", "script", "nope", "enter", "heat", Some(1)>>,
       <<"chunk", "script", "za", "enter", "heat", None>>,
       <<"chunk", "script", "za", "sideways", "heat", Some(1)>>,
       <<"edge", "add", "king", Some(0), "nope">>,
       <<"edge", "add", "king", None, "za">>,
       <<"edge", "random", "any", Some(0), Some(1), None, Some(1), Some(1)>> >>

\* C33: a command that is rejected for a malformed argument or for an unknown
\* reference leaves the whole engine state as it was: board, registry, rules,
\* chunks, edge triggers, damaged set, turn and game-over state.
C33_RejectedCommandKeepsState ==
    \A i \in DOMAIN Rejected : process_dsl_line(Start, Rejected[i]) = Start

\* A move has been made on a board with the chunk za and a trigger, and the
\* commands with a bad distance, a bad owner and an unknown chunk are refused.
C33_Witness ==
    /\ ChunkIdx(chunks, "za") # 0 /\ edge_triggers # <<>> /\ last_move # None
    /\ ChunkIdx(chunks, "nope") = 0
    /\ process_dsl_line(Start, <<"edge", "add", "king", None, "za">>) = Start
    /\ process_dsl_line(Start, <<"chunk", "owner", "za", "green">>) = Start
    /\ process_dsl_line(Start, <<"edge", "add", "king", Some(0), "nope">>) = Start

\* The squares holding a white or black piece whose type is of kind pawn.
Pawns ==
    {sq \in Occupied :
        /\ board[sq][1].color \in {"white", "black"}
        /\ board[sq][1].type_name \in DOMAIN piece_types
        /\ TypeAt(sq).kind = "pawn"}

Forward(sq) == IF board[sq][1].color = "white" THEN 1 ELSE -1

StartRank(sq) == IF board[sq][1].color = "white" THEN 1 ELSE rows - 2

\* The square t is on the board, empty and not damage-blocked for the piece on sq.
FreeFor(sq, t) ==
    /\ in_bounds(G, t[1], t[2]) /\ board[t] = None
    /\ ~square_blocked_by_damage(G, t[1], t[2], TypeAt(sq))

\* C34: the legal moves of a pawn are the free square one step forward, the
\* free square two steps forward when the pawn stands on its start rank and the
\* square stepped over is free too, and the forward-diagonal squares that are
\* not damage-blocked and hold a piece of the other colour.
C34_PawnMoves ==
    \A sq \in Pawns :
        LET one == <<sq[1], sq[2] + Forward(sq)>>
            two == <<sq[1], sq[2] + 2 * Forward(sq)>>
        IN  MovesOf(sq) =
              {t \in DOMAIN board :
                 \/ t = one /\ FreeFor(sq, t)
                 \/ t = two /\ sq[2] = StartRank(sq) /\ FreeFor(sq, t) /\ FreeFor(sq, one)
                 \/ /\ t[2] = sq[2] + Forward(sq) /\ t[1] \in {sq[1] - 1, sq[1] + 1}
                    /\ ~square_blocked_by_damage(G, t[1], t[2], TypeAt(sq))
                    /\ board[t] # None /\ board[t][1].color # board[sq][1].color}

\* After a move a pawn stands on its start rank with the square two steps ahead
\* free and the square between occupied or damage-blocked: no double step.
C34_Witness ==
    /\ last_move # None
    /\ \E sq \in Pawns :
          /\ sq[2] = StartRank(sq)
          /\ in_bounds(G, sq[1], sq[2] + 2 * Forward(sq))
          /\ FreeFor(sq, <<sq[1], sq[2] + 2 * Forward(sq)>>)
          /\ ~FreeFor(sq, <<sq[1], sq[2] + Forward(sq)>>)
          /\ <<sq[1], sq[2] + 2 * Forward(sq)>> \notin MovesOf(sq)

\* The pieces of a sliding type: direction vectors, no jump, neither pawn nor
\* knight.
Sliders ==
    {sq \in Occupied :
        /\ board[sq][1].type_name \in DOMAIN piece_types
        /\ TypeAt(sq).kind \notin {"pawn", "knight"}
        /\ TypeAt(sq).directions # <<>> /\ ~TypeAt(sq).can_jump}

\* The number of steps a slider may take: its type's range plus its own bonus,
\* and without a range more steps than any line of the board has squares.
Reach(sq) ==
    IF TypeAt(sq).max_range # None
    THEN TypeAt(sq).max_range[1] + board[sq][1].state.range_bonus
    ELSE cols + rows

\* C35: the legal moves of a slider are, in each direction, the squares reached
\* within its range (type range plus range bonus, or without limit when the type
\* has no range) without leaving the board, without passing an occupied or a
\* damage-blocked square, ending on an empty square or a piece of the other
\* colour.
C35_SliderMoves ==
    \A sq \in Sliders :
        MovesOf(sq) =
            {<<sq[1] + dk[2] * dk[1][1], sq[2] + dk[2] * dk[1][2]>> :
                dk \in {e \in Range(TypeAt(sq).directions) \X (1 .. Reach(sq)) :
                           Reached(sq, e[1], e[2])}}

\* After a move a slider without a range has a range bonus, and a slider has an
\* empty damage-blocked square next to it in one of its directions.
C35_Witness ==
    /\ last_move # None
    /\ \E sq \in Sliders :
          TypeAt(sq).max_range = None /\ board[sq][1].state.range_bonus > 0
    /\ \E sq \in Sliders : \E d \in Range(TypeAt(sq).directions) :
          /\ in_bounds(G, sq[1] + d[1], sq[2] + d[2])
          /\ board[<<sq[1] + d[1], sq[2] + d[2]>>] = None
          /\ square_blocked_by_damage(G, sq[1] + d[1], sq[2] + d[2], TypeAt(sq))

\* C36: "chunk fill NAME colour type" on an existing chunk sets the fill of that
\* chunk, changes nothing else in the engine state and completes normally.
C36_ChunkFillCompletes ==
    \A i \in DOMAIN chunks :
        process_dsl_command(Start, <<"chunk", "fill", chunks[i].name, "white", "pawn">>)
            = [Start EXCEPT !.chunks[i].fill = Some([color |-> "white", type |-> "pawn"])]

\* The fill of zb has been stored and the command has left with NameError.
C36_FillRaised ==
    /\ exc = "NameError"
    /\ \E i \in DOMAIN chunks :
          chunks[i].name = "zb" /\ chunks[i].fill = Some([color |-> "white", type |-> "pawn"])

\* C37: every accepted move moves a piece of the side to move and flips the
\* turn, and fullmove grows by one exactly with the moves made on black's turn,
\* also when commands are entered between the two clicks of a move.
C37_MoverIsSideToMove ==
    [][AcceptedMove =>
          /\ Mover.color = turn
          /\ turn' = (IF turn = "black" THEN "white" ELSE "black")
          /\ fullmove' = fullmove + (IF turn = "black" THEN 1 ELSE 0)]_vars

\* On white's turn, with a white or black side to move throughout, the last
\* move was made by a black piece: the turn has passed to black.
C37_BlackMovedForWhite ==
    /\ last_move # None /\ turn = "black" /\ fullmove = 1
    /\ board[last_move[1][2]] # None
    /\ board[last_move[1][2]][1].color = "black"
    /\ board[last_move[1][2]][1].type_name = "rook"

\* The number of pieces of colour c on the board b.
ColourCount(b, c) == Cardinality({sq \in DOMAIN b : b[sq] # None /\ b[sq][1].color = c})

\* C38: with capture mode none a move removes no piece: apart from moves whose
\* mover decays and moves that toggle a chunk, every accepted move leaves the
\* number of pieces of each colour as it was.
C38_NoCaptureKeepsPieces ==
    [][(/\ AcceptedMove /\ rules.capture_mode = "none"
        /\ chunks' = chunks /\ board'[MoveTo] # None)
          => \A c \in {"white", "black"} : ColourCount(board', c) = ColourCount(board, c)]_vars

\* Under capture mode none the white rook has moved from a1 onto the knight's
\* square c1, and black has a piece less than in the skirmish.
C38_KnightGone ==
    /\ rules.capture_mode = "none" /\ last_move = Some(<< <<0, 0>>, <<2, 0>> >>)
    /\ board[<<2, 0>>] # None /\ board[<<2, 0>>][1].type_name = "rook"
    /\ ColourCount(board, "black") = 2 /\ ColourCount(board, "white") = 3
    /\ damaged = {}

\* C39: after "chunk on NAME" the chunk is active and after "chunk off NAME" it
\* is inactive, whatever it was before; "chunk on" on an active chunk clears no
\* piece and damages no square, "chunk off" on an inactive chunk creates no piece.
C39_OnOffSetTheState ==
    \A i \in DOMAIN chunks :
        LET on == process_dsl_command(Start, <<"chunk", "on", chunks[i].name>>)
            off == process_dsl_command(Start, <<"chunk", "off", chunks[i].name>>)
        IN  /\ on.chunks[i].active
            /\ ~off.chunks[i].active
            /\ chunks[i].active => (on.board = board /\ on.damaged = damaged)
            /\ ~chunks[i].active =>
                  \A sq \in DOMAIN board : off.board[sq] # None => board[sq] # None

\* The chunk za is active and "chunk on za" switches it off, clearing a piece
\* from its rectangle and damaging a square.
C39_OnSwitchesOff ==
    \E i \in DOMAIN chunks :
        LET on == process_dsl_command(Start, <<"chunk", "on", chunks[i].name>>) IN
        /\ chunks[i].name = "za" /\ chunks[i].active /\ ~on.chunks[i].active
        /\ \E sq \in DOMAIN board : board[sq] # None /\ on.board[sq] = None
        /\ on.damaged # damaged

\* C40: in every reachable state every piece on the board is white or black
\* and the side to move is white or black.
C40_ColoursAreWhiteOrBlack ==
    /\ turn \in {"white", "black"}
    /\ \A sq \in DOMAIN board : board[sq] # None => board[sq][1].color \in {"white", "black"}

\* A load has completed and the engine runs on with a side to move that is
\* neither white nor black, on the 5x3 board of the file.
C40_GreenToMove ==
    /\ Running /\ turn = "green" /\ cols = 5 /\ rows = 3
    /\ Occupied # {} /\ ~game_over

====
